---- MODULE Spec2Model ----
(***************************************************************************)
(* A model of orez: the connection Mutex (src/src/shim/hooks.mjs), the     *)
(* proxy's per-database connection bookkeeping and single-session          *)
(* transaction state (as recorded in the notes of src/vitest.config.ts),   *)
(* change capture and the replication poll, and CDC recovery               *)
(* (src/src/recovery.ts).                                                  *)
(***************************************************************************)
EXTENDS Integers, Sequences, FiniteSets, TLC

\* ------------------------------------------------------------------ bounds
MaxCallers == 3
MaxConns == 2
MaxWatermark == 3
BatchSize == 2
MaxRows == 1
MaxUserTables == 2
MaxFragments == 3
MaxDepth == 2
MaxCalls == 3
MaxTxWrites == 2
\* zero-cache processes left running after zeroCacheProcess was assigned a new one
MaxOrphans == 1
\* calls of the sqlite-mode functions in one run
MaxShimCalls == 8
\* migration files in the journal, statements in each file, runMigrations runs
MaxMigrations == 2
MaxStatements == 2
MaxRuns == 3
\* connections that have the same database file open
MaxVfsConns == 3
\* .s.PGSQL.* files in a data directory, and cleanStaleLocks calls in one run
MaxSockets == 2
MaxCleanCalls == 3

None == 0
Callers == 1..MaxCallers
Conns == 1..MaxConns

VARIABLES
  \* ---- Mutex and the event loop around it
  mutex,            \* [locked, queue]: the Mutex object's two fields
  macrotasks,       \* callbacks handed to setImmediate / setTimeout(0), in order
  hasSetImmediate,  \* typeof setImmediate !== 'undefined' in this runtime
  pc,               \* per caller: "idle", "waiting" (promise pending), "holding"
  running,          \* the caller whose synchronous code is on the stack, or None
  pending,          \* history: acquire() calls not yet granted, in call order
  lateArrival,      \* history: callers whose acquire() came while a hand-off was pending
  ioBetween,        \* history: an I/O callback ran since the last hand-off was scheduled
  \* ---- the proxy: connections multiplexed onto one session per database
  connOpen,         \* per connection: its socket is open
  connDb,           \* per connection: the database named in its startup message
  connPc,           \* per connection: "idle" (awaiting a message), "waiting", "processing"
  connMsg,          \* per connection: the message being handled, or "none"
  activeConns,      \* activeConns[dbName]: open connections counted per database
  dbMutex,          \* per database instance: its Mutex
  handoffs,         \* resolve callbacks scheduled by the mutexes' release(), in order
  mutexHolder,      \* history: per database, the connection granted the Mutex, or None
  session,          \* per database: the single session's transaction state
  lastEvent,        \* history: the last message executed, or the last socket close
  shutdown,         \* stop(): pgServer accepts connections, the instances are closed,
                    \* and history: messages still queued at the close, a message
                    \* forwarded to a closed instance
  \* ---- change capture on the postgres instance and one replication stream
  cdcTx,            \* the postgres session's transaction state
  seqLast,          \* last value issued by the sequence _orez._zero_watermark
  changeLog,        \* rows of _orez._zero_changes as the session sees them, oldest first
  streaming,        \* a replication stream is open
  cursor,           \* the stream's last delivered watermark
  delivered,        \* history: watermarks delivered on the current stream, in order
  aborted,          \* history: watermarks written by transactions that rolled back
  issued,           \* history: every value the sequence has issued in this data directory
  clientTx,         \* per connection: NotBegun, or since the client's BEGIN: Begun, or
                    \* the first watermark its transaction wrote
  commitOrder,      \* history: the clients' transactions in the order their COMMIT ran
  deliveredTx,      \* history: the transaction of each delivered record, as in delivered
  \* ---- the change-tracker installer on the primary database
  published,        \* tables of the current publication
  hooks,            \* per table: change-tracking hooks installed on it
  instPc,           \* installChangeTracking: "idle" or "working"
  toInstall,        \* tables the running installer still has to hook
  toRemove,         \* tables the running installer still has to unhook
  runs,             \* history: completed installer runs since the publication last
                    \* changed: "none", "once", "twice" (twice or more)
  lastWrite,        \* history: the last row mutation and the change records it wrote
  \* ---- recoverFromCdcCorruption and the state it works on
  tables,           \* pg_tables of the primary database, with owner and row count
  slots,            \* rows of _orez._zero_replication_slots
  zeroCache,        \* ctx.zeroCacheProcess: "none" (null), "running" or "killed"
  aux,              \* instances.cvr / instances.cdb: "open", "closed" or "fresh"
  auxData,          \* the directories pgdata-cvr / pgdata-cdb: "stale", "absent", "empty"
  replicaFiles,     \* suffixes of zero-replica.db files present in dataDir
  recPc,            \* the step recoverFromCdcCorruption has reached
  toDrop,           \* shardSchemas.rows not yet dropped
  userBefore,       \* history: the user's tables when recovery started
  swallowed,        \* history: recovery's SQL statements that failed, error swallowed
  \* ---- startZeroLite, killZeroCache and resetZeroState
  cfg,              \* config: onDbReady and beforeZero set, skipZeroCache
  startPc,          \* the step startZeroLite is about to take, "running" once returned
  zc,               \* zeroCacheProcess: state "none", "alive" or "exited", and the
                    \* child's .killed flag
  killPc,           \* killZeroCache: "idle", "waiting" (exit or 3 s), "resolved"
  resetPc,          \* the step resetZeroState is about to take, or "idle"
  resetMode,        \* the running reset's mode: "cache-only", "full", or "none"
  resetInProgress,  \* the resetInProgress flag
  life,             \* restartZeroCache and stop: their steps, their killZeroCache
                    \* waits, and zero-cache processes no handle refers to any more
  resetFile,        \* the marker file orez.resetting exists
  createdByHook,    \* history: tables the on-db-ready / beforeZero hooks created
  lastStart,        \* history: who spawned zero-cache last and what was unhooked then
  resetLog,         \* history of the current or last reset: how it was asked for, and
                    \* whether it ran the installer and restarted zero-cache
  cdbSchemas,       \* the schemas named like '%/cdc' in the zero_cdb database
  \* ---- hasCdcCorruptionSignature
  sig,              \* the details last examined and the answer given
  \* ---- sqlite-wasm Database.transaction()
  txDb,             \* the database: inTransaction, committed and uncommitted writes
  txStack,          \* the calls of wrapped functions in progress, innermost last
  txDone,           \* history: the calls that have ended, how, and their writes
  \* ---- sqlite-mode: the @rocicorp/zero-sqlite3 package on disk
  pkgIndex,         \* content of the package's index.js
  pkgBackup,        \* content of index.js.orez-backup, or "absent"
  shimLog,          \* history: the calls made, the last one and its result, and
                    \* index.js as it was before the shim was written
  \* ---- runMigrations
  migDb,            \* the primary database: the names in public.migrations in the
                    \* order inserted, and how often each statement has run
  migRun,           \* the run in progress: step, file, statement, count applied;
                    \* history: runs ended, the last result, what was pending
  \* ---- sqlite-wasm VFS: _fileLocks of one database file
  vfsHolders,       \* the holders map: each connection's lock level, 0 when absent
  vfsLog,           \* history: the last call, its result, the holders before it
  \* ---- cleanStaleLocks: a PGlite data directory
  lockFiles,        \* postmaster.pid present or not, and the count of .s.PGSQL.* files
  lockProc,         \* the process with the PID in postmaster.pid: none, or alive
  lockLog           \* history: calls, the last call's files before and after, result

mutexVars == <<mutex, macrotasks, hasSetImmediate, pc, running, pending,
               lateArrival, ioBetween>>

proxyVars == <<connOpen, connDb, connPc, connMsg, activeConns, dbMutex, handoffs,
               mutexHolder, session, lastEvent, shutdown>>

cdcVars == <<cdcTx, seqLast, changeLog, streaming, cursor, delivered, aborted,
             issued, clientTx, commitOrder, deliveredTx>>

cdcClientVars == <<clientTx, commitOrder, deliveredTx>>

trackVars == <<published, hooks, instPc, toInstall, toRemove, runs, lastWrite>>

recVars == <<tables, slots, zeroCache, aux, auxData, replicaFiles, recPc, toDrop,
             userBefore, swallowed>>

startVars == <<cfg, startPc, zc, killPc, resetPc, resetMode, resetInProgress, life,
               resetFile, createdByHook, lastStart, resetLog, cdbSchemas>>

auxVars == <<aux, auxData, replicaFiles>>

shimVars == <<pkgIndex, pkgBackup, shimLog>>

migVars == <<migDb, migRun>>

vfsVars == <<vfsHolders, vfsLog>>

lockVars == <<lockFiles, lockProc, lockLog>>

toolVars == <<shimVars, migVars, vfsVars, lockVars>>

libVars == <<sig, txDb, txStack, txDone, toolVars>>

appVars == <<mutexVars, proxyVars, cdcVars, recVars, trackVars, startVars, sig, txDb,
             txStack, txDone>>

recOtherVars == <<tables, slots, zeroCache, recPc, toDrop, userBefore, swallowed>>

vars == <<mutex, macrotasks, hasSetImmediate, pc, running, pending,
          lateArrival, ioBetween,
          connOpen, connDb, connPc, connMsg, activeConns, dbMutex, handoffs,
          mutexHolder, session, lastEvent, shutdown,
          cdcTx, seqLast, changeLog, streaming, cursor, delivered, aborted, issued,
          clientTx, commitOrder, deliveredTx,
          published, hooks, instPc, toInstall, toRemove, runs, lastWrite,
          tables, slots, zeroCache, aux, auxData, replicaFiles, recPc, toDrop,
          userBefore, swallowed,
          cfg, startPc, zc, killPc, resetPc, resetMode, resetInProgress, life,
          resetFile, createdByHook, lastStart, resetLog, cdbSchemas,
          sig, txDb, txStack, txDone,
          pkgIndex, pkgBackup, shimLog,
          migDb, migRun,
          vfsHolders, vfsLog,
          lockFiles, lockProc, lockLog>>

\* ------------------------------------------------------------------ Mutex
\* private locked = false; private queue = []
MutexInit == [locked |-> FALSE, queue |-> <<>>]

\* acquire(): true when the call returns without queueing
AcquireGranted(m) == ~m.locked

MutexAcquireFront(m, c) ==
  IF ~m.locked
    THEN [m EXCEPT !.locked = TRUE]
    ELSE [m EXCEPT !.queue = <<c>> \o @]

\* acquire(): the Mutex after the call by caller c
MutexAcquire(m, c) ==
  IF ~m.locked
    THEN [m EXCEPT !.locked = TRUE]
    ELSE [m EXCEPT !.queue = Append(@, c)]

MutexNextNobody(m) == None

\* release(): const next = this.queue.shift()
MutexNext(m) == IF m.queue = <<>> THEN None ELSE Head(m.queue)

MutexReleaseUnlocks(m) ==
  IF m.queue # <<>>
    THEN [m EXCEPT !.queue = Tail(@), !.locked = FALSE]
    ELSE [m EXCEPT !.locked = FALSE]

\* release(): the Mutex after the call; locked stays set when a waiter is handed the lock
MutexRelease(m) ==
  IF m.queue # <<>>
    THEN [m EXCEPT !.queue = Tail(@)]
    ELSE [m EXCEPT !.locked = FALSE]

\* release(): how the next waiter's resolve is scheduled
ScheduleKind(withSetImmediate) == IF withSetImmediate THEN "immediate" ELSE "timeout"

Without(s, c) == SelectSeq(s, LAMBDA x : x # c)

\* ------------------------------------------------------------------ Mutex in the event loop
MutexStateInit ==
  /\ mutex = MutexInit
  /\ macrotasks = <<>>
  /\ hasSetImmediate \in BOOLEAN
  /\ pc = [c \in Callers |-> "idle"]
  /\ running = None
  /\ pending = <<>>
  /\ lateArrival = {}
  /\ ioBetween = FALSE

\* An I/O event (socket data, an engine reply) starts caller c's synchronous code.
Enter(c) ==
  /\ running = None
  /\ pc[c] \in {"idle", "holding"}
  /\ running' = c
  /\ ioBetween' = (ioBetween \/ macrotasks # <<>>)
  /\ UNCHANGED <<mutex, macrotasks, hasSetImmediate, pc, pending, lateArrival>>

\* c's synchronous code returns to the event loop.
Yield(c) ==
  /\ running = c
  /\ running' = None
  /\ UNCHANGED <<mutex, macrotasks, hasSetImmediate, pc, pending, lateArrival, ioBetween>>

\* await mutex.acquire()
Acquire(c) ==
  /\ running = c
  /\ pc[c] = "idle"
  /\ mutex' = MutexAcquire(mutex, c)
  /\ IF AcquireGranted(mutex)
       THEN /\ pc' = [pc EXCEPT ![c] = "holding"]
            /\ running' = c
            /\ UNCHANGED <<pending, lateArrival>>
       ELSE /\ pc' = [pc EXCEPT ![c] = "waiting"]
            /\ running' = None
            /\ pending' = Append(pending, c)
            /\ lateArrival' = IF macrotasks # <<>> THEN lateArrival \cup {c}
                                                   ELSE lateArrival
  /\ UNCHANGED <<macrotasks, hasSetImmediate, ioBetween>>

ReleaseSync(c) ==
  /\ running = c
  /\ pc[c] = "holding"
  /\ mutex' = MutexRelease(mutex)
  /\ LET next == MutexNext(mutex) IN
       /\ pc' = IF next # None
                  THEN [pc EXCEPT ![c] = "idle", ![next] = "holding"]
                  ELSE [pc EXCEPT ![c] = "idle"]
       /\ pending' = IF next # None THEN Without(pending, next) ELSE pending
  /\ lateArrival' = lateArrival \ {c}
  /\ UNCHANGED <<macrotasks, hasSetImmediate, running, ioBetween>>

\* mutex.release() by the holder
Release(c) ==
  /\ running = c
  /\ pc[c] = "holding"
  /\ mutex' = MutexRelease(mutex)
  /\ LET next == MutexNext(mutex) IN
       IF next # None
         THEN /\ macrotasks' = Append(macrotasks,
                                 [kind |-> ScheduleKind(hasSetImmediate), fn |-> next])
              /\ ioBetween' = FALSE
         ELSE UNCHANGED <<macrotasks, ioBetween>>
  /\ pc' = [pc EXCEPT ![c] = "idle"]
  /\ lateArrival' = lateArrival \ {c}
  /\ UNCHANGED <<hasSetImmediate, running, pending>>

\* The event loop, with no code on the stack, runs the oldest scheduled callback:
\* the waiter's resolve, whose continuation then holds the mutex.
RunMacrotask ==
  /\ running = None
  /\ macrotasks # <<>>
  /\ LET w == Head(macrotasks).fn IN
       /\ pc' = [pc EXCEPT ![w] = "holding"]
       /\ running' = w
       /\ pending' = Without(pending, w)
  /\ macrotasks' = Tail(macrotasks)
  /\ UNCHANGED <<mutex, hasSetImmediate, lateArrival, ioBetween>>

\* the holder calls acquire() again before release(): the mutex is locked, so the
\* call queues its resolve and the holder awaits it
ReAcquire(c) ==
  /\ running = c
  /\ pc[c] = "holding"
  /\ mutex' = MutexAcquire(mutex, c)
  /\ pc' = [pc EXCEPT ![c] = IF AcquireGranted(mutex) THEN "holding" ELSE "reentered"]
  /\ running' = IF AcquireGranted(mutex) THEN c ELSE None
  /\ pending' = Append(pending, c)
  /\ UNCHANGED <<macrotasks, hasSetImmediate, lateArrival, ioBetween>>

MutexNext_ ==
  \/ \E c \in Callers : Enter(c) /\ UNCHANGED <<proxyVars, cdcVars, recVars, trackVars, startVars, libVars>>
  \/ \E c \in Callers : Yield(c) /\ UNCHANGED <<proxyVars, cdcVars, recVars, trackVars, startVars, libVars>>
  \/ \E c \in Callers : Acquire(c) /\ UNCHANGED <<proxyVars, cdcVars, recVars, trackVars, startVars, libVars>>
  \/ \E c \in Callers : Release(c) /\ UNCHANGED <<proxyVars, cdcVars, recVars, trackVars, startVars, libVars>>
  \/ RunMacrotask /\ UNCHANGED <<proxyVars, cdcVars, recVars, trackVars, startVars, libVars>>

\* ------------------------------------------------------------------ proxy
\* independent pglite instances, one Mutex each (zero_cdb behaves as zero_cvr does)
Dbs == {"postgres", "zero_cvr"}

\* a client's ROLLBACK ends the transaction as its COMMIT does
Messages == {"begin", "stmt", "commit"}

NoTx == [inTx |-> FALSE, owner |-> None]
NotBegun == 0 - 1
Begun == 0
NoEvent == [kind |-> "none"]

Serving == [accepting |-> TRUE, closed |-> FALSE, queued |-> {}, forwarded |-> FALSE]

ProxyInit ==
  /\ connOpen = [c \in Conns |-> FALSE]
  /\ connDb = [c \in Conns |-> "none"]
  /\ connPc = [c \in Conns |-> "idle"]
  /\ connMsg = [c \in Conns |-> "none"]
  /\ activeConns = [d \in Dbs |-> 0]
  /\ dbMutex = [d \in Dbs |-> MutexInit]
  /\ handoffs = <<>>
  /\ mutexHolder = [d \in Dbs |-> None]
  /\ session = [d \in Dbs |-> NoTx]
  /\ lastEvent = NoEvent
  /\ shutdown = Serving

Max(a, b) == IF a >= b THEN a ELSE b

ConnectedTwice(n) == n + 2

\* on connect: activeConns[dbName] = (activeConns[dbName] || 0) + 1
Connected(n) == n + 1

RemainingUnchanged(n) == n

\* on close: Math.max(0, (activeConns[dbName] || 1) - 1)
Remaining(n) == Max(0, (IF n = 0 THEN 1 ELSE n) - 1)

ShouldRollbackAlways(remaining) == TRUE

\* on close: if (remaining === 0)
ShouldRollback(remaining) == remaining = 0

\* The single session of a pglite instance executing one message: every connection's
\* statements run in the one transaction state the session has.
Execute(s, m, c) ==
  CASE m = "begin"    -> IF s.inTx THEN s ELSE [inTx |-> TRUE, owner |-> c]
    [] m = "commit"   -> NoTx
    [] OTHER          -> s

\* history: message m of connection c was executed in session state s
Executed(s, m, c) ==
  [kind |-> m, foreign |-> s.inTx /\ s.owner # c]

\* a socket is accepted and its startup message names database d
Connect(c, d) ==
  /\ shutdown.accepting
  /\ ~connOpen[c]
  /\ connPc[c] = "idle"
  /\ connOpen' = [connOpen EXCEPT ![c] = TRUE]
  /\ connDb' = [connDb EXCEPT ![c] = d]
  /\ activeConns' = [activeConns EXCEPT ![d] = Connected(@)]
  /\ UNCHANGED <<connPc, connMsg, dbMutex, handoffs, mutexHolder, session,
                 lastEvent, shutdown>>

\* a wire-protocol message arrives: the handler awaits the instance's mutex
Receive(c, m) ==
  /\ connOpen[c]
  /\ connPc[c] = "idle"
  /\ LET d == connDb[c] IN
       /\ dbMutex' = [dbMutex EXCEPT ![d] = MutexAcquire(@, c)]
       /\ IF AcquireGranted(dbMutex[d])
            THEN /\ connPc' = [connPc EXCEPT ![c] = "processing"]
                 /\ mutexHolder' = [mutexHolder EXCEPT ![d] = c]
            ELSE /\ connPc' = [connPc EXCEPT ![c] = "waiting"]
                 /\ UNCHANGED mutexHolder
  /\ connMsg' = [connMsg EXCEPT ![c] = m]
  /\ UNCHANGED <<connOpen, connDb, activeConns, handoffs, session, lastEvent, shutdown>>

\* the event loop runs a resolve scheduled by release(): the waiter holds the mutex
Resume ==
  /\ handoffs # <<>>
  /\ LET h == Head(handoffs) IN
       /\ connPc' = [connPc EXCEPT ![h.fn] = "processing"]
       /\ mutexHolder' = [mutexHolder EXCEPT ![h.db] = h.fn]
  /\ handoffs' = Tail(handoffs)
  /\ UNCHANGED <<connOpen, connDb, connMsg, activeConns, dbMutex, session,
                 lastEvent, shutdown>>

\* history: the holder forwards its message to the instance, closed or not
Forwarded(sd) == [sd EXCEPT !.forwarded = @ \/ sd.closed]

ProcessHoldingInTx(c) ==
  /\ connPc[c] = "processing"
  /\ LET d == connDb[c]
         after == Execute(session[d], connMsg[c], c) IN
       /\ session' = [session EXCEPT ![d] = after]
       /\ lastEvent' = Executed(session[d], connMsg[c], c)
       /\ shutdown' = Forwarded(shutdown)
       /\ IF after.inTx
            THEN UNCHANGED <<dbMutex, handoffs, mutexHolder>>
            ELSE /\ dbMutex' = [dbMutex EXCEPT ![d] = MutexRelease(@)]
                 /\ mutexHolder' = [mutexHolder EXCEPT ![d] = None]
                 /\ handoffs' = IF MutexNext(dbMutex[d]) # None
                      THEN Append(handoffs, [db |-> d, fn |-> MutexNext(dbMutex[d])])
                      ELSE handoffs
  /\ connPc' = [connPc EXCEPT ![c] = "idle"]
  /\ connMsg' = [connMsg EXCEPT ![c] = "none"]
  /\ connDb' = [connDb EXCEPT ![c] = IF connOpen[c] THEN @ ELSE "none"]
  /\ UNCHANGED <<connOpen, activeConns>>

\* the holder forwards its one message to the engine and releases the mutex
Process(c) ==
  /\ connPc[c] = "processing"
  /\ LET d == connDb[c] IN
       /\ session' = IF shutdown.closed THEN session
                    ELSE [session EXCEPT ![d] = Execute(@, connMsg[c], c)]
       /\ lastEvent' = IF shutdown.closed THEN NoEvent
                      ELSE Executed(session[d], connMsg[c], c)
       /\ shutdown' = Forwarded(shutdown)
       /\ dbMutex' = [dbMutex EXCEPT ![d] = MutexRelease(@)]
       /\ mutexHolder' = [mutexHolder EXCEPT ![d] = None]
       /\ handoffs' = IF MutexNext(dbMutex[d]) # None
            THEN Append(handoffs, [db |-> d, fn |-> MutexNext(dbMutex[d])])
            ELSE handoffs
  /\ connPc' = [connPc EXCEPT ![c] = "idle"]
  /\ connMsg' = [connMsg EXCEPT ![c] = "none"]
  /\ connDb' = [connDb EXCEPT ![c] = IF connOpen[c] THEN @ ELSE "none"]
  /\ UNCHANGED <<connOpen, activeConns>>

\* socket.on('close'): count down, and ROLLBACK + reset only for the last connection
Close(c) ==
  /\ connOpen[c]
  /\ LET d == connDb[c]
         remaining == Remaining(activeConns[d])
         rollback == ShouldRollback(remaining) IN
       /\ activeConns' = [activeConns EXCEPT ![d] = remaining]
       /\ session' = IF rollback THEN [session EXCEPT ![d] = NoTx] ELSE session
       /\ lastEvent' =
            [kind |-> "close",
             others |-> \E o \in Conns \ {c} : connOpen[o] /\ connDb[o] = d,
             issued |-> IF rollback THEN "rollback_reset" ELSE "none",
             txBefore |-> session[d].inTx,
             txAfter |-> session'[d].inTx]
  /\ connOpen' = [connOpen EXCEPT ![c] = FALSE]
  /\ connDb' = [connDb EXCEPT ![c] = IF connPc[c] = "idle" THEN "none" ELSE @]
  /\ UNCHANGED <<connPc, connMsg, dbMutex, handoffs, mutexHolder, shutdown>>

\* stop(): pgServer.close() and, in the same turn, close() on every instance; the
\* message in flight on an instance completes before that instance closes
StopProxy ==
  /\ ~shutdown.closed
  /\ \A c \in Conns : connPc[c] # "processing"
  /\ shutdown' = [accepting |-> FALSE, closed |-> TRUE,
                  queued |-> {c \in Conns : connPc[c] = "waiting"},
                  forwarded |-> FALSE]
  /\ UNCHANGED <<connOpen, connDb, connPc, connMsg, activeConns, dbMutex, handoffs,
                 mutexHolder, session, lastEvent>>

ProxyNext ==
  \/ \E c \in Conns, d \in Dbs : Connect(c, d) /\ UNCHANGED <<mutexVars, cdcVars, recVars, trackVars, startVars, libVars>>
  \/ \E c \in Conns, m \in Messages : Receive(c, m) /\ UNCHANGED <<mutexVars, cdcVars, recVars, trackVars, startVars, libVars>>
  \/ Resume /\ UNCHANGED <<mutexVars, cdcVars, recVars, trackVars, startVars, libVars>>
  \/ \E c \in Conns : Process(c) /\ UNCHANGED <<mutexVars, cdcVars, recVars, trackVars, startVars, libVars>>
  \/ \E c \in Conns : Close(c) /\ UNCHANGED <<mutexVars, cdcVars, recVars, trackVars, startVars, libVars>>

\* ------------------------------------------------------------------ change capture
\* the two client connections to the primary database whose statements interleave
Clients == {1, 2}

CdcInit ==
  /\ cdcTx = NoTx
  /\ seqLast = 0
  /\ changeLog = <<>>
  /\ streaming = FALSE
  /\ cursor = 0
  /\ delivered = <<>>
  /\ aborted = {}
  /\ issued = <<>>
  /\ clientTx = [c \in Clients |-> NotBegun]
  /\ commitOrder = <<>>
  /\ deliveredTx = <<>>

\* nextval('_orez._zero_watermark'): a sequence's value is not given back on rollback
NextVal(last) == last + 1

\* the transaction a statement of connection c belongs to in the client's eyes: the
\* one it began, named by the first watermark written in it, or the statement alone
\* (autocommit), named by its own watermark
ClientTx(c, at, last) ==
  [conn |-> c, n |-> IF at \in {NotBegun, Begun} THEN NextVal(last) ELSE at]

\* the per-table hook: the change row appended by a mutation inside session state tx
ChangeRow(last, tx, id) ==
  [watermark |-> NextVal(last), state |-> IF tx.inTx THEN "open" ELSE "committed",
   tx |-> id]

\* COMMIT: the open transaction's rows become committed
CommitRows(log) ==
  [i \in 1..Len(log) |-> [log[i] EXCEPT !.state = "committed"]]

\* ROLLBACK: the open transaction's rows are gone
RollbackRows(log) == SelectSeq(log, LAMBDA r : r.state = "committed")

OpenWatermarks(log) ==
  {log[i].watermark : i \in {j \in 1..Len(log) : log[j].state = "open"}}

Take(q, n) == IF Len(q) <= n THEN q ELSE SubSeq(q, 1, n)

ChangesSinceInclusive(log, w, limit) ==
  Take(SelectSeq(log, LAMBDA r : r.watermark >= w), limit)

\* the poll's read: rows after watermark w in watermark order, at most limit of them.
\* It is a query on the instance's one session, so it reads what that session sees.
ChangesSince(log, w, limit) ==
  Take(SelectSeq(log, LAMBDA r : r.watermark > w), limit)

\* BEGIN from connection c
CdcBegin(c) ==
  /\ clientTx[c] = NotBegun
  /\ clientTx' = [clientTx EXCEPT ![c] = Begun]
  /\ cdcTx' = Execute(cdcTx, "begin", c)
  /\ UNCHANGED <<seqLast, changeLog, streaming, cursor, delivered, aborted, issued,
                 commitOrder, deliveredTx>>

\* an INSERT/UPDATE/DELETE on a tracked table from connection c: the hook appends
\* the change row in the same transaction
CdcMutate(c) ==
  /\ seqLast < MaxWatermark
  /\ changeLog' = Append(changeLog,
        ChangeRow(seqLast, cdcTx, ClientTx(c, clientTx[c], seqLast)))
  /\ seqLast' = NextVal(seqLast)
  /\ issued' = Append(issued, NextVal(seqLast))
  /\ clientTx' = [clientTx EXCEPT ![c] = IF @ = Begun THEN NextVal(seqLast) ELSE @]
  /\ UNCHANGED <<cdcTx, streaming, cursor, delivered, aborted, commitOrder,
                 deliveredTx>>

\* COMMIT from connection c
CdcCommit(c) ==
  /\ clientTx[c] # NotBegun
  /\ cdcTx' = Execute(cdcTx, "commit", c)
  /\ changeLog' = CommitRows(changeLog)
  /\ clientTx' = [clientTx EXCEPT ![c] = NotBegun]
  /\ commitOrder' =
       IF clientTx[c] # Begun
         THEN Append(commitOrder, ClientTx(c, clientTx[c], seqLast))
         ELSE commitOrder
  /\ UNCHANGED <<seqLast, streaming, cursor, delivered, aborted, issued, deliveredTx>>

\* ROLLBACK from connection c
CdcRollback(c) ==
  /\ clientTx[c] # NotBegun
  /\ cdcTx' = NoTx
  /\ changeLog' = RollbackRows(changeLog)
  /\ aborted' = aborted \cup OpenWatermarks(changeLog)
  /\ clientTx' = [clientTx EXCEPT ![c] = NotBegun]
  /\ UNCHANGED <<seqLast, streaming, cursor, delivered, issued, commitOrder,
                 deliveredTx>>

\* START_REPLICATION on a fresh stream, from watermark 0
CdcStartStream ==
  /\ streaming' = TRUE
  /\ cursor' = 0
  /\ delivered' = <<>>
  /\ deliveredTx' = <<>>
  /\ (~streaming \/ delivered # <<>>)
  /\ UNCHANGED <<cdcTx, seqLast, changeLog, aborted, issued, clientTx, commitOrder>>

\* one poll of the replication loop: take the mutex, read the next batch, release,
\* stream the batch and advance the cursor
CdcPoll ==
  /\ streaming
  /\ LET batch == ChangesSince(changeLog, cursor, BatchSize) IN
       /\ batch # <<>>
       /\ delivered' = delivered \o [i \in 1..Len(batch) |-> batch[i].watermark]
       /\ deliveredTx' = deliveredTx \o [i \in 1..Len(batch) |-> batch[i].tx]
       /\ cursor' = batch[Len(batch)].watermark
  /\ UNCHANGED <<cdcTx, seqLast, changeLog, streaming, aborted, issued, clientTx,
                 commitOrder>>

CdcNext ==
  \/ \E c \in Clients : CdcBegin(c) /\ UNCHANGED <<mutexVars, proxyVars, recVars, trackVars, startVars, libVars>>
  \/ \E c \in Clients : CdcMutate(c) /\ UNCHANGED <<mutexVars, proxyVars, recVars, trackVars, startVars, libVars>>
  \/ \E c \in Clients : CdcCommit(c) /\ UNCHANGED <<mutexVars, proxyVars, recVars, trackVars, startVars, libVars>>
  \/ \E c \in Clients : CdcRollback(c) /\ UNCHANGED <<mutexVars, proxyVars, recVars, trackVars, startVars, libVars>>
  \/ CdcStartStream /\ UNCHANGED <<mutexVars, proxyVars, recVars, trackVars, startVars, libVars>>
  \/ CdcPoll /\ UNCHANGED <<mutexVars, proxyVars, recVars, trackVars, startVars, libVars>>

\* ------------------------------------------------------------------ change tracker
\* tables of the primary database that a publication may name
TrackTables == {"todo", "user", "app"}

NoWrite == [table |-> "none"]

TrackInit ==
  /\ published = {}
  /\ hooks = [t \in TrackTables |-> 0]
  /\ instPc = "idle"
  /\ toInstall = {}
  /\ toRemove = {}
  /\ runs = "none"
  /\ lastWrite = NoWrite

\* hooked = tablesWithInstalledHook()
Hooked(h) == {t \in TrackTables : h[t] > 0}

ToInstallAll(pub, hooked) == pub

\* install hooks on published - hooked
ToInstall(pub, hooked) == pub \ hooked

ToRemoveNone(pub, hooked) == {}

\* drop hooks on hooked - published
ToRemove(pub, hooked) == hooked \ pub

RunsAfter(r) == IF r = "none" THEN "once" ELSE "twice"

\* a schema change at a hook point: table t joins the publication
Publish(t) ==
  /\ instPc = "idle"
  /\ t \notin published
  /\ published' = published \cup {t}
  /\ runs' = "none"
  /\ UNCHANGED <<hooks, instPc, toInstall, toRemove, lastWrite>>

\* a schema change at a hook point: table t leaves the publication
Unpublish(t) ==
  /\ instPc = "idle"
  /\ t \in published
  /\ published' = published \ {t}
  /\ runs' = "none"
  /\ UNCHANGED <<hooks, instPc, toInstall, toRemove, lastWrite>>

\* installChangeTracking starts: published = currentPublicationTables(),
\* hooked = tablesWithInstalledHook(), and the two differences
InstallBegin ==
  /\ instPc = "idle"
  /\ instPc' = "working"
  /\ toInstall' = ToInstall(published, Hooked(hooks))
  /\ toRemove' = ToRemove(published, Hooked(hooks))
  /\ UNCHANGED <<published, hooks, runs, lastWrite>>

\* the installer puts its hook on one table
InstallHook(t) ==
  /\ instPc = "working"
  /\ t \in toInstall
  /\ hooks' = [hooks EXCEPT ![t] = @ + 1]
  /\ toInstall' = toInstall \ {t}
  /\ UNCHANGED <<published, instPc, toRemove, runs, lastWrite>>

\* the installer drops the hook of one table that left the publication
RemoveHook(t) ==
  /\ instPc = "working"
  /\ t \in toRemove
  /\ hooks' = [hooks EXCEPT ![t] = 0]
  /\ toRemove' = toRemove \ {t}
  /\ UNCHANGED <<published, instPc, toInstall, runs, lastWrite>>

\* installChangeTracking returns
InstallDone ==
  /\ instPc = "working"
  /\ toInstall = {}
  /\ toRemove = {}
  /\ instPc' = "idle"
  /\ runs' = RunsAfter(runs)
  /\ UNCHANGED <<published, hooks, toInstall, toRemove, lastWrite>>

\* one row of table t is inserted, updated or deleted: each hook on t writes a record
TrackedWrite(t) ==
  /\ instPc = "idle"
  /\ lastWrite' = [table |-> t, records |-> hooks[t], published |-> t \in published,
                   after |-> runs]
  /\ UNCHANGED <<published, hooks, instPc, toInstall, toRemove, runs>>

TrackNext ==
  \/ \E t \in TrackTables : Publish(t) /\ UNCHANGED <<mutexVars, proxyVars, cdcVars, recVars, startVars, libVars>>
  \/ \E t \in TrackTables : Unpublish(t) /\ UNCHANGED <<mutexVars, proxyVars, cdcVars, recVars, startVars, libVars>>
  \/ InstallBegin /\ UNCHANGED <<mutexVars, proxyVars, cdcVars, recVars, startVars, libVars>>
  \/ \E t \in TrackTables : InstallHook(t) /\ UNCHANGED <<mutexVars, proxyVars, cdcVars, recVars, startVars, libVars>>
  \/ \E t \in TrackTables : RemoveHook(t) /\ UNCHANGED <<mutexVars, proxyVars, cdcVars, recVars, startVars, libVars>>
  \/ InstallDone /\ UNCHANGED <<mutexVars, proxyVars, cdcVars, recVars, startVars, libVars>>
  \/ \E t \in TrackTables : TrackedWrite(t) /\ UNCHANGED <<mutexVars, proxyVars, cdcVars, recVars, startVars, libVars>>

\* ------------------------------------------------------------------ recovery
\* Schema names are sequences of characters, so that LIKE and quoting are computed.
Public == <<"p", "u", "b", "l", "i", "c">>
Orez == <<"_", "o", "r", "e", "z">>
PgCatalog == <<"p", "g", "_", "c", "a", "t", "a", "l", "o", "g">>
InformationSchema == <<"i", "n", "f", "o", "r", "m", "a", "t", "i", "o", "n", "_",
                       "s", "c", "h", "e", "m", "a">>
PgToast == <<"p", "g", "_", "t", "o", "a", "s", "t">>
\* schemas a user may create, and the shard schema zero-cache creates upstream
App == <<"a", "p", "p">>
Pgx == <<"p", "g", "x">>
Quoted == <<"a", "\"">>
Shard == <<"c", "h", "a", "t", "_", "0">>

UserSchemas == {Public, App, Pgx, Quoted}
UserTableNames == {"clients", "items"}
ShardTableNames == {"clients", "replicas", "mutations"}
ReplicaSuffixes == {"", "-shm", "-wal", "-wal2"}
AuxNames == {"cvr", "cdb"}

\* schemaname NOT LIKE 'pg_%': in LIKE, _ matches any one character
LikePgPrefix(name) == Len(name) >= 3 /\ name[1] = "p" /\ name[2] = "g"

\* schemaname.replace(/"/g, '""')
RECURSIVE EscapeQuotes(_)
EscapeQuotes(name) ==
  IF name = <<>> THEN <<>>
  ELSE (IF Head(name) = "\"" THEN <<"\"", "\"">> ELSE <<Head(name)>>)
         \o EscapeQuotes(Tail(name))

\* the identifier the engine reads between the double quotes of "..."
RECURSIVE ParseQuoted(_)
ParseQuoted(text) ==
  IF text = <<>> THEN <<>>
  ELSE IF Head(text) = "\"" /\ Len(text) >= 2 /\ text[2] = "\""
         THEN <<"\"">> \o ParseQuoted(Tail(Tail(text)))
         ELSE <<Head(text)>> \o ParseQuoted(Tail(text))

ExcludedSchemas == {PgCatalog, InformationSchema, PgToast, Public, Orez}

\* SELECT DISTINCT schemaname FROM pg_tables WHERE tablename IN (...) AND ...
ShardSchemas(tbls) ==
  {t.schema : t \in {x \in tbls :
       /\ x.table \in {"clients", "replicas", "mutations"}
       /\ x.schema \notin ExcludedSchemas
       /\ ~LikePgPrefix(x.schema)}}

\* DROP SCHEMA IF EXISTS "<escaped name>" CASCADE
DropSchema(tbls, escaped) == {t \in tbls : t.schema # ParseQuoted(escaped)}

UserTables(tbls) == {t \in tbls : t.owner = "user"}

RecInit ==
  /\ tables = {}
  /\ slots = 0
  /\ zeroCache \in {"none", "running"}
  /\ aux = [n \in AuxNames |-> "open"]
  /\ auxData = [n \in AuxNames |-> "stale"]
  /\ replicaFiles \in {{}, ReplicaSuffixes}
  /\ recPc = "idle"
  /\ toDrop = {}
  /\ swallowed = {}
  /\ userBefore = {}

\* before recovery: the user creates a table in one of their schemas
UserCreateTable(sch, tbl) ==
  /\ recPc = "idle"
  /\ Cardinality(UserTables(tables)) < MaxUserTables
  /\ ~\E t \in tables : t.schema = sch /\ t.table = tbl
  /\ tables' = tables \cup {[schema |-> sch, table |-> tbl, owner |-> "user", rows |-> 0]}
  /\ UNCHANGED <<slots, zeroCache, aux, auxData, replicaFiles, recPc, toDrop, userBefore, swallowed>>

\* before recovery: the user inserts a row
UserInsertRow(sch, tbl) ==
  /\ recPc = "idle"
  /\ \E t \in tables :
       /\ t.schema = sch /\ t.table = tbl /\ t.owner = "user" /\ t.rows < MaxRows
       /\ tables' = (tables \ {t}) \cup {[t EXCEPT !.rows = @ + 1]}
  /\ UNCHANGED <<slots, zeroCache, aux, auxData, replicaFiles, recPc, toDrop, userBefore, swallowed>>

\* before recovery: zero-cache creates its shard schema and a replication slot upstream
ShardCreate ==
  /\ recPc = "idle"
  /\ ~\E t \in tables : t.schema = Shard
  /\ tables' = tables \cup
       {[schema |-> Shard, table |-> n, owner |-> "zero", rows |-> 0] : n \in ShardTableNames}
  /\ slots' = 1
  /\ UNCHANGED <<zeroCache, aux, auxData, replicaFiles, recPc, toDrop, userBefore, swallowed>>

\* recoverFromCdcCorruption: kill the failed zero-cache process
RecKill ==
  /\ recPc = "idle"
  /\ zeroCache' = IF zeroCache = "running" THEN "killed" ELSE zeroCache
  /\ recPc' = "killed"
  /\ userBefore' = UserTables(tables)
  /\ UNCHANGED <<tables, slots, aux, auxData, replicaFiles, toDrop, swallowed>>

\* close the CVR/CDB instances and delete their data directories
RecCloseAndDelete ==
  /\ recPc = "killed"
  /\ aux' = [n \in AuxNames |-> "closed"]
  /\ auxData' = [n \in AuxNames |-> "absent"]
  /\ recPc' = "deleted"
  /\ UNCHANGED <<tables, slots, zeroCache, replicaFiles, toDrop, userBefore, swallowed>>

\* delete zero-replica.db and its -shm, -wal, -wal2 side files
RecDeleteReplica ==
  /\ recPc = "deleted"
  /\ replicaFiles' = replicaFiles \ ReplicaSuffixes
  /\ recPc' = "replicaDeleted"
  /\ UNCHANGED <<tables, slots, zeroCache, aux, auxData, toDrop, userBefore, swallowed>>

\* recreate the CVR/CDB instances on empty directories
RecRecreate ==
  /\ recPc = "replicaDeleted"
  /\ auxData' = [n \in AuxNames |-> "empty"]
  /\ aux' = [n \in AuxNames |-> "fresh"]
  /\ recPc' = "recreated"
  /\ UNCHANGED <<tables, slots, zeroCache, replicaFiles, toDrop, userBefore, swallowed>>

\* await db.exec(sql).catch(() => {}): the statement takes effect, or it fails and
\* the error is swallowed
Swallow(failed, stmt, ok) == IF ok THEN failed ELSE failed \cup {stmt}

\* TRUNCATE _orez._zero_changes
RecTruncateChanges ==
  /\ recPc = "recreated"
  /\ \E ok \in BOOLEAN :
       /\ changeLog' = IF ok THEN <<>> ELSE changeLog
       /\ swallowed' = Swallow(swallowed, "truncate changes", ok)
  /\ recPc' = "changesCleared"
  /\ UNCHANGED <<tables, slots, zeroCache, aux, auxData, replicaFiles, toDrop, userBefore>>
  /\ UNCHANGED <<cdcTx, seqLast, streaming, cursor, delivered, aborted, issued,
                 cdcClientVars>>

\* TRUNCATE _orez._zero_replication_slots
RecTruncateSlots ==
  /\ recPc = "changesCleared"
  /\ \E ok \in BOOLEAN :
       /\ slots' = IF ok THEN 0 ELSE slots
       /\ swallowed' = Swallow(swallowed, "truncate slots", ok)
  /\ recPc' = "slotsCleared"
  /\ UNCHANGED <<tables, zeroCache, aux, auxData, replicaFiles, toDrop, userBefore>>

\* ALTER SEQUENCE _orez._zero_watermark RESTART WITH 1, then the shard schema query
RecRestartSequence ==
  /\ recPc = "slotsCleared"
  /\ \E ok \in BOOLEAN :
       /\ seqLast' = IF ok THEN 0 ELSE seqLast
       /\ swallowed' = Swallow(swallowed, "restart sequence", ok)
  /\ toDrop' = ShardSchemas(tables)
  /\ recPc' = "dropping"
  /\ UNCHANGED <<tables, slots, zeroCache, aux, auxData, replicaFiles, userBefore>>
  /\ UNCHANGED <<cdcTx, changeLog, streaming, cursor, delivered, aborted, issued,
                 cdcClientVars>>

\* for (const { schemaname } of shardSchemas.rows) DROP SCHEMA ... CASCADE
RecDropSchema ==
  /\ recPc = "dropping"
  /\ \E sch \in toDrop :
       /\ tables' = DropSchema(tables, EscapeQuotes(sch))
       /\ toDrop' = toDrop \ {sch}
  /\ UNCHANGED <<slots, zeroCache, aux, auxData, replicaFiles, recPc, userBefore, swallowed>>

\* 'CDC corruption recovery complete'
RecDone ==
  /\ recPc = "dropping"
  /\ toDrop = {}
  /\ recPc' = "done"
  /\ UNCHANGED <<tables, slots, zeroCache, aux, auxData, replicaFiles, toDrop, userBefore, swallowed>>

RecoveryNext ==
  \/ \E sch \in UserSchemas, tbl \in UserTableNames :
        UserCreateTable(sch, tbl) /\ UNCHANGED <<mutexVars, proxyVars, cdcVars, trackVars, startVars, libVars>>
  \/ \E sch \in UserSchemas, tbl \in UserTableNames :
        UserInsertRow(sch, tbl) /\ UNCHANGED <<mutexVars, proxyVars, cdcVars, trackVars, startVars, libVars>>
  \/ ShardCreate /\ UNCHANGED <<mutexVars, proxyVars, cdcVars, trackVars, startVars, libVars>>
  \/ (recPc \in {"idle", "done"} /\ CdcMutate(1)) /\ UNCHANGED <<mutexVars, proxyVars, recVars, trackVars, startVars, libVars>>
  \/ RecKill /\ UNCHANGED <<mutexVars, proxyVars, cdcVars, trackVars, startVars, libVars>>
  \/ RecCloseAndDelete /\ UNCHANGED <<mutexVars, proxyVars, cdcVars, trackVars, startVars, libVars>>
  \/ RecDeleteReplica /\ UNCHANGED <<mutexVars, proxyVars, cdcVars, trackVars, startVars, libVars>>
  \/ RecRecreate /\ UNCHANGED <<mutexVars, proxyVars, cdcVars, trackVars, startVars, libVars>>
  \/ RecTruncateChanges /\ UNCHANGED <<mutexVars, proxyVars, trackVars, startVars, libVars>>
  \/ RecTruncateSlots /\ UNCHANGED <<mutexVars, proxyVars, cdcVars, trackVars, startVars, libVars>>
  \/ RecRestartSequence /\ UNCHANGED <<mutexVars, proxyVars, trackVars, startVars, libVars>>
  \/ RecDropSchema /\ UNCHANGED <<mutexVars, proxyVars, cdcVars, trackVars, startVars, libVars>>
  \/ RecDone /\ UNCHANGED <<mutexVars, proxyVars, cdcVars, trackVars, startVars, libVars>>

\* ------------------------------------------------------------------ startup and reset
NoProcess == [state |-> "none", killed |-> FALSE]

Spawned == [state |-> "alive", killed |-> FALSE]

NoStart ==
  [by |-> "none", mode |-> "none", created |-> {}, unhooked |-> {}, staleCdc |-> {}]

NoReset == [via |-> "none", mode |-> "none", installed |-> FALSE, restarted |-> FALSE]

\* schemas zero-cache keeps in zero_cdb, one per app shard, e.g. chat_0/cdc
CdcSchemaNames == {"chat_0/cdc"}

\* restartZeroCache and stop have not been called, no killZeroCache of theirs waits,
\* no process runs without a handle; .active counts the resetZeroState executions
\* past the guard, .refused records a call the guard turned away
NoLife ==
  [restartPc |-> "idle", stopPc |-> "idle", restartWait |-> "idle",
   stopWait |-> "idle", orphans |-> 0, active |-> 0, refused |-> FALSE]

\* the states of a killZeroCache promise that has not resolved: "waiting" listens
\* for 'exit' on the process zeroCacheProcess still refers to, "waitingOld" on a
\* process that was replaced since, "timer" on a process that had exited before
Waiting == {"waiting", "waitingOld", "timer"}

\* a killZeroCache wait after the process in zeroCacheProcess emitted 'exit'
Heard(w) == IF w = "waiting" THEN "resolved" ELSE w

\* a killZeroCache wait after zeroCacheProcess was assigned a new process: the
\* 'exit' listener stays on the old one
Detached(w, old) ==
  IF w = "waiting" THEN (IF old.state = "alive" THEN "waitingOld" ELSE "timer") ELSE w

\* zeroCacheProcess = result.process: the process it referred to keeps running if
\* it was alive
Respawned(l, old) ==
  [l EXCEPT !.restartWait = Detached(@, old), !.stopWait = Detached(@, old),
            !.orphans = IF old.state = "alive" THEN @ + 1 ELSE @]

CanSpawn == zc.state = "alive" => life.orphans < MaxOrphans

StartInit ==
  /\ cfg \in [onDbReady : BOOLEAN, beforeZero : BOOLEAN, skipZeroCache : BOOLEAN]
  /\ startPc = "migrate"
  /\ zc = NoProcess
  /\ killPc = "idle"
  /\ resetPc = "idle"
  /\ resetMode = "none"
  /\ resetInProgress = FALSE
  /\ life = NoLife
  /\ resetFile = FALSE
  /\ createdByHook = {}
  /\ lastStart = NoStart
  /\ resetLog = NoReset
  /\ cdbSchemas \in SUBSET CdcSchemaNames

\* history: zero-cache is spawned by flow `by`
StartedBy(by) ==
  [by |-> by, mode |-> resetMode, created |-> createdByHook,
   unhooked |-> {t \in createdByHook : t \in published /\ hooks[t] = 0},
   staleCdc |-> cdbSchemas]

\* runMigrations: the migration files create tables of the publication
StartMigrate ==
  /\ startPc = "migrate"
  /\ \E made \in SUBSET TrackTables : published' = made
  /\ startPc' = "install0"
  /\ UNCHANGED <<hooks, instPc, toInstall, toRemove, runs, lastWrite>>
  /\ UNCHANGED <<life, resetLog, cdbSchemas, cfg, zc, killPc, resetPc, resetMode, resetInProgress, resetFile,
                 createdByHook, lastStart>>
  /\ UNCHANGED <<auxVars, recOtherVars>>

\* the step after an installChangeTracking call of startZeroLite
AfterInstall(at) ==
  CASE at = "install0" -> "proxy"
    [] at = "install1" -> "beforeZero"
    [] at = "install2" -> "zero"

\* await installChangeTracking(db) in startZeroLite: the call
StartInstallBegin ==
  /\ startPc \in {"install0", "install1", "install2"}
  /\ InstallBegin
  /\ UNCHANGED <<startVars, auxVars, recOtherVars>>

\* the installer's work on one table, in startZeroLite or in resetZeroState
FlowInstallStep ==
  /\ \E t \in TrackTables : InstallHook(t) \/ RemoveHook(t)
  /\ UNCHANGED <<startVars, auxVars, recOtherVars>>

\* await installChangeTracking(db) in startZeroLite: the return
StartInstallDone ==
  /\ startPc \in {"install0", "install1", "install2"}
  /\ InstallDone
  /\ startPc' = AfterInstall(startPc)
  /\ UNCHANGED <<life, resetLog, cdbSchemas, cfg, zc, killPc, resetPc, resetMode, resetInProgress, resetFile,
                 createdByHook, lastStart>>
  /\ UNCHANGED <<auxVars, recOtherVars>>

\* startPgProxy and seedIfNeeded
StartProxy ==
  /\ startPc = "proxy"
  /\ startPc' = "onDbReady"
  /\ UNCHANGED <<life, resetLog, cdbSchemas, cfg, zc, killPc, resetPc, resetMode, resetInProgress, resetFile,
                 createdByHook, lastStart>>
  /\ UNCHANGED <<trackVars, auxVars, recOtherVars>>

\* a hook (command or callback) runs to its end and creates the tables in made
HookRuns(made) ==
  /\ published' = published \cup made
  /\ createdByHook' = createdByHook \cup made
  /\ runs' = IF made \subseteq published THEN runs ELSE "none"
  /\ UNCHANGED <<hooks, instPc, toInstall, toRemove, lastWrite>>
  /\ UNCHANGED <<life, resetLog, cdbSchemas, cfg, zc, killPc, resetMode, resetInProgress, resetFile, lastStart>>
  /\ UNCHANGED <<auxVars, recOtherVars>>

\* if (config.onDbReady) { run it, throw if it fails; re-install change tracking }
StartOnDbReady ==
  /\ startPc = "onDbReady"
  /\ IF cfg.onDbReady
       THEN \E made \in SUBSET TrackTables, ok \in BOOLEAN :
              /\ HookRuns(made)
              /\ startPc' = IF ok THEN "install1" ELSE "failed"
              /\ UNCHANGED resetPc
       ELSE /\ startPc' = "beforeZero"
            /\ UNCHANGED <<life, resetLog, cdbSchemas, cfg, zc, killPc, resetPc, resetMode, resetInProgress,
                           resetFile, createdByHook, lastStart>>
            /\ UNCHANGED <<trackVars, auxVars, recOtherVars>>

\* if (config.beforeZero) { await config.beforeZero(db); re-install change tracking }
StartBeforeZero ==
  /\ startPc = "beforeZero"
  /\ IF cfg.beforeZero
       THEN \E made \in SUBSET TrackTables, ok \in BOOLEAN :
              /\ HookRuns(made)
              /\ startPc' = IF ok THEN "install2" ELSE "failed"
              /\ UNCHANGED resetPc
       ELSE /\ startPc' = "zero"
            /\ UNCHANGED <<life, resetLog, cdbSchemas, cfg, zc, killPc, resetPc, resetMode, resetInProgress,
                           resetFile, createdByHook, lastStart>>
            /\ UNCHANGED <<trackVars, auxVars, recOtherVars>>

\* cleanupStaleReplica, then startZeroCache and waitForZeroCache unless skipZeroCache
StartZero ==
  /\ startPc = "zero"
  /\ replicaFiles' = {}
  /\ IF cfg.skipZeroCache
       THEN UNCHANGED <<zc, lastStart>>
       ELSE /\ zc' = Spawned
            /\ lastStart' = StartedBy("startZeroLite")
  /\ startPc' = "running"
  /\ UNCHANGED <<life, resetLog, cdbSchemas, cfg, killPc, resetPc, resetMode, resetInProgress, resetFile,
                 createdByHook>>
  /\ UNCHANGED <<trackVars, aux, auxData, recOtherVars>>

\* the zero-cache process exits, of itself or on a signal it was sent; a pending
\* killZeroCache hears the 'exit' event
ZcExit ==
  /\ zc.state = "alive"
  /\ zc' = [zc EXCEPT !.state = "exited"]
  /\ killPc' = Heard(killPc)
  /\ life' = [life EXCEPT !.restartWait = Heard(@), !.stopWait = Heard(@)]
  /\ UNCHANGED <<resetLog, cdbSchemas, cfg, startPc, resetPc, resetMode, resetInProgress, resetFile,
                 createdByHook, lastStart>>
  /\ UNCHANGED <<trackVars, auxVars, recOtherVars>>

\* kill(signal) on the child: the signal is sent, and .killed set, only while the
\* process exists
Signalled(p) == [p EXCEPT !.killed = @ \/ p.state = "alive"]

\* zeroCacheProcess.on('exit', ...): the event comes only from a process that has
\* not exited yet
Listening(p) == IF p.state = "alive" THEN "waiting" ELSE "timer"

\* killZeroCache enters its if: zeroCacheProcess && !zeroCacheProcess.killed
KillNeeded(p) == p.state # "none" /\ ~p.killed

\* the 3 s timeout's test before SIGKILL: zeroCacheProcess && !zeroCacheProcess.killed
Escalate(p) == p.state # "none" /\ ~p.killed

\* killZeroCache's 3 s timeout fires: SIGKILL if the test passes, then resolve
TimedOut(p) ==
  IF Escalate(p)
    THEN [Signalled(p) EXCEPT !.state = IF @ = "alive" THEN "exited" ELSE @]
    ELSE p

\* a killZeroCache wait of another caller after this timeout: SIGKILL ends the
\* process, and its 'exit' is heard
HeardKill(w, p) == IF Escalate(p) /\ p.state = "alive" THEN Heard(w) ELSE w

\* the 3 s timeout of resetZeroState's killZeroCache fires
KillTimeout ==
  /\ killPc \in Waiting
  /\ zc' = TimedOut(zc)
  /\ killPc' = "resolved"
  /\ life' = [life EXCEPT !.restartWait = HeardKill(@, zc), !.stopWait = HeardKill(@, zc)]
  /\ UNCHANGED <<resetLog, cdbSchemas, cfg, startPc, resetPc, resetMode, resetInProgress, resetFile,
                 createdByHook, lastStart>>
  /\ UNCHANGED <<trackVars, auxVars, recOtherVars>>

\* the modes a caller asks for: resetZero is cache-only, resetZeroFull is full, the
\* SIGUSR1 handler calls resetZeroState('full')
ResetModes(via) ==
  CASE via = "resetZero" -> {"cache-only"}
    [] via = "resetZeroFull" -> {"full"}
    [] via = "SIGUSR1" -> {"full"}

ResetRefusedNever(inProgress) == FALSE

\* the guard of resetZeroState: if (resetInProgress) { ...; return }
ResetRefused(inProgress) == inProgress

\* resetZeroState(mode) is called (resetZero, resetZeroFull, SIGUSR1) and no reset is
\* in progress: set the flag and write the marker file
ResetCall(mode, via) ==
  /\ startPc = "running"
  /\ life.stopPc = "idle"
  /\ ~cfg.skipZeroCache
  /\ ~ResetRefused(resetInProgress)
  /\ mode \in ResetModes(via)
  /\ resetInProgress' = TRUE
  /\ resetFile' = TRUE
  /\ resetMode' = mode
  /\ resetPc' = "kill"
  /\ resetLog' = [via |-> via, mode |-> mode, installed |-> FALSE, restarted |-> FALSE]
  /\ life' = [life EXCEPT !.active = @ + 1]
  /\ UNCHANGED <<cdbSchemas, cfg, startPc, zc, killPc, createdByHook, lastStart>>
  /\ UNCHANGED <<trackVars, auxVars, recOtherVars>>

\* resetZeroState is called while a reset is in progress: log and return
ResetSkipped ==
  /\ startPc = "running"
  /\ life.stopPc = "idle"
  /\ ~cfg.skipZeroCache
  /\ ResetRefused(resetInProgress)
  /\ ~life.refused
  /\ life' = [life EXCEPT !.refused = TRUE]
  /\ UNCHANGED <<resetLog, cdbSchemas, cfg, startPc, zc, killPc, resetPc, resetMode,
                 resetInProgress, resetFile, createdByHook, lastStart>>
  /\ UNCHANGED <<trackVars, auxVars, recOtherVars>>

AfterKillAlwaysFull(mode) == "close"

\* the step of resetZeroState after killZeroCache has returned
AfterKill(mode) == IF mode = "full" THEN "close" ELSE "replica"

\* await killZeroCache(): SIGTERM and wait, or nothing to kill
ResetKill ==
  /\ resetPc = "kill"
  /\ killPc = "idle"
  /\ IF KillNeeded(zc)
       THEN /\ zc' = Signalled(zc)
            /\ killPc' = Listening(zc)
            /\ resetPc' = "killing"
       ELSE /\ resetPc' = AfterKill(resetMode)
            /\ UNCHANGED <<zc, killPc>>
  /\ UNCHANGED <<life, resetLog, cdbSchemas, cfg, startPc, resetMode, resetInProgress, resetFile, createdByHook,
                 lastStart>>
  /\ UNCHANGED <<trackVars, auxVars, recOtherVars>>

\* killZeroCache's promise has resolved: resetZeroState goes on
ResetKilled ==
  /\ resetPc = "killing"
  /\ killPc = "resolved"
  /\ killPc' = "idle"
  /\ resetPc' = AfterKill(resetMode)
  /\ UNCHANGED <<life, resetLog, cdbSchemas, cfg, startPc, zc, resetMode, resetInProgress, resetFile,
                 createdByHook, lastStart>>
  /\ UNCHANGED <<trackVars, auxVars, recOtherVars>>

\* full mode, after the 500 ms drain: close the CVR/CDB instances
ResetClose ==
  /\ resetPc = "close"
  /\ aux' = [n \in AuxNames |-> "closed"]
  /\ resetPc' = "delete"
  /\ UNCHANGED <<life, resetLog, cdbSchemas, cfg, startPc, zc, killPc, resetMode, resetInProgress, resetFile,
                 createdByHook, lastStart>>
  /\ UNCHANGED <<trackVars, auxData, replicaFiles, recOtherVars>>

\* full mode: delete pgdata-cvr and pgdata-cdb
ResetDelete ==
  /\ resetPc = "delete"
  /\ auxData' = [n \in AuxNames |-> "absent"]
  /\ cdbSchemas' = {}
  /\ resetPc' = "recreate"
  /\ UNCHANGED <<life, resetLog, cfg, startPc, zc, killPc, resetMode, resetInProgress, resetFile,
                 createdByHook, lastStart>>
  /\ UNCHANGED <<trackVars, aux, replicaFiles, recOtherVars>>

\* full mode: recreate the CVR/CDB instances on empty directories
ResetRecreate ==
  /\ resetPc = "recreate"
  /\ auxData' = [n \in AuxNames |-> "empty"]
  /\ aux' = [n \in AuxNames |-> "fresh"]
  /\ resetPc' = "replica"
  /\ UNCHANGED <<life, resetLog, cdbSchemas, cfg, startPc, zc, killPc, resetMode, resetInProgress, resetFile,
                 createdByHook, lastStart>>
  /\ UNCHANGED <<trackVars, replicaFiles, recOtherVars>>

\* the step after cleanupStaleReplica: the hook only for a full reset with onDbReady
AfterReplica(mode, onDbReady) == IF mode = "full" /\ onDbReady THEN "hook" ELSE "start"

\* always: cleanupStaleReplica(config)
ResetReplica ==
  /\ resetPc = "replica"
  /\ replicaFiles' = {}
  /\ resetPc' = AfterReplica(resetMode, cfg.onDbReady)
  /\ UNCHANGED <<life, resetLog, cdbSchemas, cfg, startPc, zc, killPc, resetMode, resetInProgress, resetFile,
                 createdByHook, lastStart>>
  /\ UNCHANGED <<trackVars, aux, auxData, recOtherVars>>

AfterResetHookSkipInstall == "start"

\* after the re-run on-db-ready hook: re-install change tracking
AfterResetHook == "install"

\* full mode with onDbReady: re-run the hook; its failure throws out of the try block
ResetHook ==
  /\ resetPc = "hook"
  /\ \E made \in SUBSET TrackTables, ok \in BOOLEAN :
       /\ HookRuns(made)
       /\ resetPc' = IF ok THEN AfterResetHook ELSE "finally"
       /\ UNCHANGED startPc

\* await installChangeTracking(db) in resetZeroState: the call
ResetInstallBegin ==
  /\ resetPc = "install"
  /\ InstallBegin
  /\ UNCHANGED <<startVars, auxVars, recOtherVars>>

\* await installChangeTracking(db) in resetZeroState: the return
ResetInstallDone ==
  /\ resetPc = "install"
  /\ InstallDone
  /\ resetPc' = "start"
  /\ resetLog' = [resetLog EXCEPT !.installed = TRUE]
  /\ UNCHANGED <<life, cdbSchemas, cfg, startPc, zc, killPc, resetMode, resetInProgress, resetFile,
                 createdByHook, lastStart>>
  /\ UNCHANGED <<auxVars, recOtherVars>>

\* restart zero-cache: startZeroCache and waitForZeroCache
ResetStart ==
  /\ resetPc = "start"
  /\ CanSpawn
  /\ zc' = Spawned
  /\ life' = Respawned(life, zc)
  /\ lastStart' = StartedBy("resetZeroState")
  /\ resetLog' = [resetLog EXCEPT !.restarted = TRUE]
  /\ resetPc' = "finally"
  /\ UNCHANGED <<cdbSchemas, cfg, startPc, killPc, resetMode, resetInProgress, resetFile,
                 createdByHook>>
  /\ UNCHANGED <<trackVars, auxVars, recOtherVars>>

\* a step inside the try block throws, the new instances' waitReady or
\* startZeroCache: the catch block logs and rethrows, the finally block runs
ResetThrows ==
  /\ resetPc \in {"recreate", "start"}
  /\ resetPc' = "finally"
  /\ UNCHANGED <<life, resetLog, cdbSchemas, cfg, startPc, zc, killPc, resetMode,
                 resetInProgress, resetFile, createdByHook, lastStart>>
  /\ UNCHANGED <<trackVars, auxVars, recOtherVars>>

\* the marker file after unlinkSync(resetFile) in the finally block
MarkerAfterFinally == FALSE

\* finally: clear the flag and remove the marker file
ResetFinally ==
  /\ resetPc = "finally"
  /\ resetInProgress' = FALSE
  /\ resetFile' = MarkerAfterFinally
  /\ resetMode' = "none"
  /\ resetPc' = "idle"
  /\ life' = [life EXCEPT !.active = @ - 1, !.refused = FALSE]
  /\ UNCHANGED <<resetLog, cdbSchemas, cfg, startPc, zc, killPc, createdByHook, lastStart>>
  /\ UNCHANGED <<trackVars, auxVars, recOtherVars>>

\* a zero-cache process no handle refers to exits; a killZeroCache that listens to
\* it hears the event
OrphanExit ==
  /\ life.orphans > 0
  /\ \E heard \in BOOLEAN :
       /\ life.orphans = 1 => heard
       /\ killPc' = IF heard /\ killPc = "waitingOld" THEN "resolved" ELSE killPc
       /\ life' = [life EXCEPT
            !.orphans = @ - 1,
            !.restartWait = IF heard /\ @ = "waitingOld" THEN "resolved" ELSE @,
            !.stopWait = IF heard /\ @ = "waitingOld" THEN "resolved" ELSE @]
  /\ UNCHANGED <<resetLog, cdbSchemas, cfg, startPc, zc, resetPc, resetMode, resetInProgress,
                 resetFile, createdByHook, lastStart>>
  /\ UNCHANGED <<trackVars, auxVars, recOtherVars>>

\* restartZero() is called: await killZeroCache(), SIGTERM and wait, or nothing to kill
RestartCall ==
  /\ startPc = "running"
  /\ life.stopPc = "idle"
  /\ ~cfg.skipZeroCache
  /\ life.restartPc = "idle"
  /\ zc' = IF KillNeeded(zc) THEN Signalled(zc) ELSE zc
  /\ life' = IF KillNeeded(zc)
               THEN [life EXCEPT !.restartPc = "killing", !.restartWait = Listening(zc)]
               ELSE [life EXCEPT !.restartPc = "start"]
  /\ UNCHANGED <<resetLog, cdbSchemas, cfg, startPc, killPc, resetPc, resetMode,
                 resetInProgress, resetFile, createdByHook, lastStart>>
  /\ UNCHANGED <<trackVars, auxVars, recOtherVars>>

\* the 3 s timeout of restartZeroCache's killZeroCache fires
RestartKillTimeout ==
  /\ life.restartWait \in Waiting
  /\ zc' = TimedOut(zc)
  /\ killPc' = HeardKill(killPc, zc)
  /\ life' = [life EXCEPT !.restartWait = "resolved", !.stopWait = HeardKill(@, zc)]
  /\ UNCHANGED <<resetLog, cdbSchemas, cfg, startPc, resetPc, resetMode, resetInProgress,
                 resetFile, createdByHook, lastStart>>
  /\ UNCHANGED <<trackVars, auxVars, recOtherVars>>

\* killZeroCache's promise has resolved: restartZeroCache goes on
RestartKilled ==
  /\ life.restartPc = "killing"
  /\ life.restartWait = "resolved"
  /\ life' = [life EXCEPT !.restartPc = "start", !.restartWait = "idle"]
  /\ UNCHANGED <<resetLog, cdbSchemas, cfg, startPc, zc, killPc, resetPc, resetMode,
                 resetInProgress, resetFile, createdByHook, lastStart>>
  /\ UNCHANGED <<trackVars, auxVars, recOtherVars>>

\* restartZeroCache: startZeroCache, zeroCacheProcess = result.process, waitForZeroCache
RestartStart ==
  /\ life.restartPc = "start"
  /\ CanSpawn
  /\ zc' = Spawned
  /\ killPc' = Detached(killPc, zc)
  /\ life' = [Respawned(life, zc) EXCEPT !.restartPc = "idle"]
  /\ lastStart' = [StartedBy("restartZeroCache") EXCEPT !.mode = "restart"]
  /\ UNCHANGED <<resetLog, cdbSchemas, cfg, startPc, resetPc, resetMode, resetInProgress,
                 resetFile, createdByHook>>
  /\ UNCHANGED <<trackVars, auxVars, recOtherVars>>

\* stop() is called: httpProxyServer?.close(), await killZeroCache()
StopCall ==
  /\ startPc = "running"
  /\ life.stopPc = "idle"
  /\ zc' = IF KillNeeded(zc) THEN Signalled(zc) ELSE zc
  /\ life' = IF KillNeeded(zc)
               THEN [life EXCEPT !.stopPc = "killing", !.stopWait = Listening(zc)]
               ELSE [life EXCEPT !.stopPc = "close"]
  /\ UNCHANGED <<resetLog, cdbSchemas, cfg, startPc, killPc, resetPc, resetMode,
                 resetInProgress, resetFile, createdByHook, lastStart>>
  /\ UNCHANGED <<trackVars, auxVars, recOtherVars>>

\* the 3 s timeout of stop's killZeroCache fires
StopKillTimeout ==
  /\ life.stopWait \in Waiting
  /\ zc' = TimedOut(zc)
  /\ killPc' = HeardKill(killPc, zc)
  /\ life' = [life EXCEPT !.stopWait = "resolved", !.restartWait = HeardKill(@, zc)]
  /\ UNCHANGED <<resetLog, cdbSchemas, cfg, startPc, resetPc, resetMode, resetInProgress,
                 resetFile, createdByHook, lastStart>>
  /\ UNCHANGED <<trackVars, auxVars, recOtherVars>>

\* killZeroCache's promise has resolved: stop goes on to pgServer.close()
StopKilled ==
  /\ life.stopPc = "killing"
  /\ life.stopWait = "resolved"
  /\ life' = [life EXCEPT !.stopPc = "close", !.stopWait = "idle"]
  /\ UNCHANGED <<resetLog, cdbSchemas, cfg, startPc, zc, killPc, resetPc, resetMode,
                 resetInProgress, resetFile, createdByHook, lastStart>>
  /\ UNCHANGED <<trackVars, auxVars, recOtherVars>>

\* pgServer.close(), the instances are closed, the pid file removed: stop() resolves
StopClosed ==
  /\ life.stopPc = "close"
  /\ life' = [life EXCEPT !.stopPc = "stopped"]
  /\ UNCHANGED <<resetLog, cdbSchemas, cfg, startPc, zc, killPc, resetPc, resetMode,
                 resetInProgress, resetFile, createdByHook, lastStart>>
  /\ UNCHANGED <<trackVars, auxVars, recOtherVars>>

\* a client of the proxy mutates a row of a tracked table while orez is up and no
\* reset is under way
StartMutate ==
  /\ startPc = "running"
  /\ resetPc = "idle"
  /\ CdcMutate(1)

StartNext ==
  \/ StartMutate /\ UNCHANGED <<mutexVars, proxyVars, recVars, trackVars, startVars, libVars>>
  \/ StartMigrate /\ UNCHANGED <<mutexVars, proxyVars, cdcVars, libVars>>
  \/ StartInstallBegin /\ UNCHANGED <<mutexVars, proxyVars, cdcVars, libVars>>
  \/ FlowInstallStep /\ UNCHANGED <<mutexVars, proxyVars, cdcVars, libVars>>
  \/ StartInstallDone /\ UNCHANGED <<mutexVars, proxyVars, cdcVars, libVars>>
  \/ StartProxy /\ UNCHANGED <<mutexVars, proxyVars, cdcVars, libVars>>
  \/ StartOnDbReady /\ UNCHANGED <<mutexVars, proxyVars, cdcVars, libVars>>
  \/ StartBeforeZero /\ UNCHANGED <<mutexVars, proxyVars, cdcVars, libVars>>
  \/ StartZero /\ UNCHANGED <<mutexVars, proxyVars, cdcVars, libVars>>
  \/ ZcExit /\ UNCHANGED <<mutexVars, proxyVars, cdcVars, libVars>>
  \/ KillTimeout /\ UNCHANGED <<mutexVars, proxyVars, cdcVars, libVars>>
  \/ \E mode \in {"cache-only", "full"}, via \in {"resetZero", "resetZeroFull", "SIGUSR1"} :
        ResetCall(mode, via) /\ UNCHANGED <<mutexVars, proxyVars, cdcVars, libVars>>
  \/ ResetKill /\ UNCHANGED <<mutexVars, proxyVars, cdcVars, libVars>>
  \/ ResetKilled /\ UNCHANGED <<mutexVars, proxyVars, cdcVars, libVars>>
  \/ ResetClose /\ UNCHANGED <<mutexVars, proxyVars, cdcVars, libVars>>
  \/ ResetDelete /\ UNCHANGED <<mutexVars, proxyVars, cdcVars, libVars>>
  \/ ResetRecreate /\ UNCHANGED <<mutexVars, proxyVars, cdcVars, libVars>>
  \/ ResetReplica /\ UNCHANGED <<mutexVars, proxyVars, cdcVars, libVars>>
  \/ ResetHook /\ UNCHANGED <<mutexVars, proxyVars, cdcVars, libVars>>
  \/ ResetInstallBegin /\ UNCHANGED <<mutexVars, proxyVars, cdcVars, libVars>>
  \/ ResetInstallDone /\ UNCHANGED <<mutexVars, proxyVars, cdcVars, libVars>>
  \/ ResetStart /\ UNCHANGED <<mutexVars, proxyVars, cdcVars, libVars>>
  \/ ResetFinally /\ UNCHANGED <<mutexVars, proxyVars, cdcVars, libVars>>
  \/ OrphanExit /\ UNCHANGED <<mutexVars, proxyVars, cdcVars, libVars>>

\* the calls of the returned API in any order: restartZero, resetZero,
\* resetZeroFull, SIGUSR1 and stop
LifecycleNext ==
  \/ StartMigrate /\ UNCHANGED <<mutexVars, proxyVars, cdcVars, libVars>>
  \/ StartInstallBegin /\ UNCHANGED <<mutexVars, proxyVars, cdcVars, libVars>>
  \/ FlowInstallStep /\ UNCHANGED <<mutexVars, proxyVars, cdcVars, libVars>>
  \/ StartInstallDone /\ UNCHANGED <<mutexVars, proxyVars, cdcVars, libVars>>
  \/ StartProxy /\ UNCHANGED <<mutexVars, proxyVars, cdcVars, libVars>>
  \/ StartOnDbReady /\ UNCHANGED <<mutexVars, proxyVars, cdcVars, libVars>>
  \/ StartBeforeZero /\ UNCHANGED <<mutexVars, proxyVars, cdcVars, libVars>>
  \/ StartZero /\ UNCHANGED <<mutexVars, proxyVars, cdcVars, libVars>>
  \/ ZcExit /\ UNCHANGED <<mutexVars, proxyVars, cdcVars, libVars>>
  \/ OrphanExit /\ UNCHANGED <<mutexVars, proxyVars, cdcVars, libVars>>
  \/ KillTimeout /\ UNCHANGED <<mutexVars, proxyVars, cdcVars, libVars>>
  \/ \E mode \in {"cache-only", "full"}, via \in {"resetZero", "resetZeroFull", "SIGUSR1"} :
        ResetCall(mode, via) /\ UNCHANGED <<mutexVars, proxyVars, cdcVars, libVars>>
  \/ ResetSkipped /\ UNCHANGED <<mutexVars, proxyVars, cdcVars, libVars>>
  \/ ResetThrows /\ UNCHANGED <<mutexVars, proxyVars, cdcVars, libVars>>
  \/ ResetKill /\ UNCHANGED <<mutexVars, proxyVars, cdcVars, libVars>>
  \/ ResetKilled /\ UNCHANGED <<mutexVars, proxyVars, cdcVars, libVars>>
  \/ ResetClose /\ UNCHANGED <<mutexVars, proxyVars, cdcVars, libVars>>
  \/ ResetDelete /\ UNCHANGED <<mutexVars, proxyVars, cdcVars, libVars>>
  \/ ResetRecreate /\ UNCHANGED <<mutexVars, proxyVars, cdcVars, libVars>>
  \/ ResetReplica /\ UNCHANGED <<mutexVars, proxyVars, cdcVars, libVars>>
  \/ ResetStart /\ UNCHANGED <<mutexVars, proxyVars, cdcVars, libVars>>
  \/ ResetFinally /\ UNCHANGED <<mutexVars, proxyVars, cdcVars, libVars>>
  \/ RestartCall /\ UNCHANGED <<mutexVars, proxyVars, cdcVars, libVars>>
  \/ RestartKillTimeout /\ UNCHANGED <<mutexVars, proxyVars, cdcVars, libVars>>
  \/ RestartKilled /\ UNCHANGED <<mutexVars, proxyVars, cdcVars, libVars>>
  \/ RestartStart /\ UNCHANGED <<mutexVars, proxyVars, cdcVars, libVars>>
  \/ StopCall /\ UNCHANGED <<mutexVars, proxyVars, cdcVars, libVars>>
  \/ StopKillTimeout /\ UNCHANGED <<mutexVars, proxyVars, cdcVars, libVars>>
  \/ StopKilled /\ UNCHANGED <<mutexVars, proxyVars, cdcVars, libVars>>
  \/ StopClosed /\ UNCHANGED <<mutexVars, proxyVars, cdcVars, libVars>>

\* ------------------------------------------------------------------ corruption signature
\* an error text, as the sequence of the fragments it is made of
Fragments == {"changeLog_pkey", "duplicate key", "23505", "watermark", "other text"}

DetailsTexts == UNION {[1..n -> Fragments] : n \in 0..MaxFragments}

\* details.includes(fragment)
Includes(details, fragment) == \E i \in 1..Len(details) : details[i] = fragment

\* hasCdcCorruptionSignature(details)
HasCdcCorruptionSignature(details) ==
  IF details = <<>> THEN FALSE
  ELSE IF Includes(details, "changeLog_pkey") /\ Includes(details, "duplicate key")
    THEN TRUE
  ELSE IF Includes(details, "23505") /\ Includes(details, "watermark") THEN TRUE
  ELSE FALSE

SigInit == sig = [details |-> <<>>, checked |-> FALSE, result |-> FALSE]

\* zero-cache's output is examined
SigCheck(details) ==
  sig' = [details |-> details, checked |-> TRUE,
          result |-> HasCdcCorruptionSignature(details)]

SigNext ==
  \E details \in DetailsTexts :
    SigCheck(details)
      /\ UNCHANGED <<txDb, txStack, txDone>>
      /\ UNCHANGED <<mutexVars, proxyVars, cdcVars, recVars, trackVars, startVars, toolVars>>

\* ------------------------------------------------------------------ Database.transaction
TxInit ==
  /\ txDb = [inTransaction |-> FALSE, committed |-> {}, pending |-> {}]
  /\ txStack = <<>>
  /\ txDone = {}

\* the writes made so far, each one a new row
TxWritten == UNION ({r.writes : r \in txDone} \cup {txStack[i].writes : i \in 1..Len(txStack)})

\* runner(): a nested call (db.inTransaction set) runs fn as it is, an outer call
\* runs BEGIN first
TxCall ==
  /\ Len(txStack) < MaxDepth
  /\ Cardinality(txDone) + Len(txStack) < MaxCalls
  /\ txStack' = Append(txStack,
                  [id |-> Cardinality(txDone) + Len(txStack) + 1,
                   outer |-> ~txDb.inTransaction, writes |-> {}])
  /\ txDb' = [txDb EXCEPT !.inTransaction = TRUE]
  /\ UNCHANGED txDone

\* fn runs an INSERT
TxWrite ==
  /\ txStack # <<>>
  /\ Cardinality(TxWritten) < MaxTxWrites
  /\ LET w == Cardinality(TxWritten) + 1 IN
       /\ txDb' = [txDb EXCEPT !.pending = @ \cup {w}]
       /\ txStack' = [txStack EXCEPT ![Len(txStack)].writes = @ \cup {w}]
  /\ UNCHANGED txDone

\* the database after fn has ended: an outer call runs COMMIT when fn returned and
\* ROLLBACK (if db.inTransaction) when it threw, a nested call runs neither
TxEnded(db, frame, threw) ==
  IF ~frame.outer THEN db
  ELSE IF ~threw
    THEN [inTransaction |-> FALSE, committed |-> db.committed \cup db.pending,
          pending |-> {}]
  ELSE IF db.inTransaction
    THEN [inTransaction |-> FALSE, committed |-> db.committed, pending |-> {}]
  ELSE db

\* fn returns, or throws and runner rethrows: the caller may catch the error and go
\* on, or end by throwing itself
TxEnd(threw) ==
  /\ txStack # <<>>
  /\ LET frame == txStack[Len(txStack)] IN
       /\ txDb' = TxEnded(txDb, frame, threw)
       /\ txDone' = txDone \cup
            {[id |-> frame.id, outer |-> frame.outer, threw |-> threw,
              writes |-> frame.writes]}
  /\ txStack' = SubSeq(txStack, 1, Len(txStack) - 1)

TxNext ==
  \/ TxCall /\ UNCHANGED sig
       /\ UNCHANGED <<mutexVars, proxyVars, cdcVars, recVars, trackVars, startVars, toolVars>>
  \/ TxWrite /\ UNCHANGED sig
       /\ UNCHANGED <<mutexVars, proxyVars, cdcVars, recVars, trackVars, startVars, toolVars>>
  \/ \E threw \in BOOLEAN :
       TxEnd(threw) /\ UNCHANGED sig
         /\ UNCHANGED <<mutexVars, proxyVars, cdcVars, recVars, trackVars, startVars, toolVars>>

\* ------------------------------------------------------------------ sqlite-mode shim
\* what index.js may hold: a released index.js of the package, or the shim that
\* generateCjsShim writes for wasm mode
Originals == {"original 1", "original 2"}

WasmShim == "orez sqlite shim, mode: wasm"

\* content.includes('orez sqlite shim')
IsOrezShimmed(content) == content = WasmShim

\* the mode named in the shim's comment, "none" for a file that is not a shim
GetShimMode(content) == IF content = WasmShim THEN "wasm" ELSE "none"

\* backupOriginal: keep an existing backup, refuse to back up a shim, else copy
\* index.js to the backup file
BackupOriginal(fs) ==
  IF fs.backup # "absent" THEN [fs |-> fs, ok |-> TRUE]
  ELSE IF IsOrezShimmed(fs.index) THEN [fs |-> fs, ok |-> FALSE]
  ELSE [fs |-> [fs EXCEPT !.backup = fs.index], ok |-> TRUE]

\* restoreOriginal: write the backup over index.js and remove the backup file
RestoreOriginal(fs) ==
  IF fs.backup = "absent" THEN [fs |-> fs, ok |-> FALSE]
  ELSE [fs |-> [index |-> fs.backup, backup |-> "absent"], ok |-> TRUE]

ApplyWasmShimBlind(fs, config) ==
  IF config.mode # "wasm" \/ ~config.zeroSqlitePath \/ ~config.bedrockPath
    THEN [fs |-> fs, ok |-> FALSE]
    ELSE [fs |-> [index |-> WasmShim, backup |-> fs.index], ok |-> TRUE]

\* applyWasmShim(config)
ApplyWasmShim(fs, config) ==
  IF config.mode # "wasm" \/ ~config.zeroSqlitePath \/ ~config.bedrockPath
    THEN [fs |-> fs, ok |-> FALSE]
  ELSE IF GetShimMode(fs.index) = "wasm" THEN [fs |-> fs, ok |-> TRUE]
  ELSE LET backedUp == BackupOriginal(fs) IN
    IF ~backedUp.ok /\ backedUp.fs.backup = "absent"
      THEN [fs |-> backedUp.fs, ok |-> FALSE]
      ELSE [fs |-> [backedUp.fs EXCEPT !.index = WasmShim], ok |-> TRUE]

\* restoreNativeMode(zeroSqlitePath)
RestoreNativeMode(fs) ==
  IF ~IsOrezShimmed(fs.index) THEN [fs |-> fs, ok |-> TRUE]
  ELSE RestoreOriginal(fs)

\* applySqliteMode(config)
ApplySqliteMode(fs, config) ==
  IF config.mode = "native"
    THEN IF config.zeroSqlitePath THEN RestoreNativeMode(fs) ELSE [fs |-> fs, ok |-> TRUE]
    ELSE ApplyWasmShim(fs, config)

\* cleanupShim(zeroSqlitePath)
CleanupShim(fs, zeroSqlitePath) ==
  IF ~zeroSqlitePath THEN [fs |-> fs, ok |-> TRUE]
  ELSE [fs |-> RestoreOriginal(fs).fs, ok |-> TRUE]

ShimConfigs == [mode : {"wasm", "native"}, zeroSqlitePath : BOOLEAN, bedrockPath : BOOLEAN]

ShimOps == {"applyWasmShim", "restoreNativeMode", "applySqliteMode", "cleanupShim"}

\* what a call of one of the four functions makes of the files
ShimOutcome(op, fs, config) ==
  CASE op = "applyWasmShim" -> ApplyWasmShim(fs, config)
    [] op = "restoreNativeMode" -> RestoreNativeMode(fs)
    [] op = "applySqliteMode" -> ApplySqliteMode(fs, config)
    [] op = "cleanupShim" -> CleanupShim(fs, config.zeroSqlitePath)

PkgFiles == [index |-> pkgIndex, backup |-> pkgBackup]

\* a package as installed: an index.js that is not a shim, no backup file
ShimInit ==
  /\ pkgIndex = "original 1"
  /\ pkgBackup = "absent"
  /\ shimLog = [calls |-> 0, op |-> "none", ok |-> TRUE, prior |-> "none",
                seq |-> "none"]

\* one of the four functions is called; the history notes a shim written over a
\* file that was none ("applied") and a restoring call right after it ("restored")
ShimCall(op, config) ==
  /\ shimLog.calls < MaxShimCalls
  /\ LET out == ShimOutcome(op, PkgFiles, config)
         wrote == ~IsOrezShimmed(pkgIndex) /\ IsOrezShimmed(out.fs.index)
         restores == \/ op \in {"restoreNativeMode", "cleanupShim"}
                     \/ op = "applySqliteMode" /\ config.mode = "native"
     IN
       /\ pkgIndex' = out.fs.index
       /\ pkgBackup' = out.fs.backup
       /\ shimLog' = [calls |-> shimLog.calls + 1, op |-> op, ok |-> out.ok,
                      prior |-> IF wrote THEN pkgIndex ELSE shimLog.prior,
                      seq |-> IF wrote THEN "applied"
                              ELSE IF shimLog.seq = "applied" /\ restores
                                      /\ (op = "restoreNativeMode" \/ config.zeroSqlitePath)
                                THEN "restored"
                              ELSE "other"]

\* the package manager writes the package's index.js: an install, an upgrade, or
\* the reinstall the error messages ask for
PackageInstalled(content) ==
  /\ shimLog.calls < MaxShimCalls
  /\ content \in Originals
  /\ content # pkgIndex
  /\ pkgIndex' = content
  /\ shimLog' = [shimLog EXCEPT !.calls = @ + 1, !.op = "install", !.ok = TRUE,
                                !.seq = "other"]
  /\ UNCHANGED pkgBackup

ShimNext ==
  \E op \in ShimOps, config \in ShimConfigs :
    ShimCall(op, config) /\ UNCHANGED <<appVars, migVars, vfsVars, lockVars>>

ShimInstallNext ==
  \/ \E op \in ShimOps, config \in ShimConfigs :
       ShimCall(op, config) /\ UNCHANGED <<appVars, migVars, vfsVars, lockVars>>
  \/ \E content \in Originals : PackageInstalled(content) /\ UNCHANGED <<appVars, migVars, vfsVars, lockVars>>

\* ------------------------------------------------------------------ runMigrations
\* files: the journal's entries in journal order, each file's statements in order
MigFiles == 1..MaxMigrations

MigStatements == 1..MaxStatements

\* SELECT count(*) FROM public.migrations WHERE name = $1
MigRecorded(db, file) == \E i \in 1..Len(db.applied) : db.applied[i] = file

\* the files a run finds not recorded yet
MigPending(db) == {f \in MigFiles : ~MigRecorded(db, f)}

MigInit ==
  /\ migDb = [applied |-> <<>>, execs |-> [f \in MigFiles |-> [st \in MigStatements |-> 0]]]
  /\ migRun = [pc |-> "idle", file |-> 0, stmt |-> 0, applied |-> 0, runs |-> 0,
               last |-> -1, pendingAtCall |-> {}]

\* runMigrations(db, config) is called: the tracking table is created if missing,
\* the journal is read
MigBegin ==
  /\ migRun.pc = "idle"
  /\ migRun.runs < MaxRuns
  /\ migRun' = [migRun EXCEPT !.pc = "check", !.file = 1, !.stmt = 0, !.applied = 0,
                              !.pendingAtCall = MigPending(migDb)]
  /\ UNCHANGED migDb

\* the for loop's head and the check whether the file was applied already; past the
\* last file the run returns the count
MigCheck ==
  /\ migRun.pc = "check"
  /\ migRun' =
       IF migRun.file > MaxMigrations
         THEN [migRun EXCEPT !.pc = "idle", !.runs = @ + 1, !.last = migRun.applied]
       ELSE IF MigRecorded(migDb, migRun.file)
         THEN [migRun EXCEPT !.file = @ + 1]
       ELSE [migRun EXCEPT !.pc = "exec", !.stmt = 1]
  /\ UNCHANGED migDb

\* await db.exec(stmt): the statement takes effect, or fails and the run throws
MigExec(ok) ==
  /\ migRun.pc = "exec"
  /\ IF ok
       THEN /\ migDb' = [migDb EXCEPT !.execs[migRun.file][migRun.stmt] = @ + 1]
            /\ migRun' = IF migRun.stmt = MaxStatements
                            THEN [migRun EXCEPT !.pc = "record"]
                            ELSE [migRun EXCEPT !.stmt = @ + 1]
       ELSE /\ migRun' = [migRun EXCEPT !.pc = "idle", !.runs = @ + 1, !.last = -1]
            /\ UNCHANGED migDb

\* INSERT INTO public.migrations (name) VALUES ($1); applied++
MigRecord ==
  /\ migRun.pc = "record"
  /\ migDb' = [migDb EXCEPT !.applied = Append(@, migRun.file)]
  /\ migRun' = [migRun EXCEPT !.pc = "check", !.file = @ + 1, !.applied = @ + 1]

MigNext ==
  \/ MigBegin /\ UNCHANGED <<appVars, shimVars, vfsVars, lockVars>>
  \/ MigCheck /\ UNCHANGED <<appVars, shimVars, vfsVars, lockVars>>
  \/ \E ok \in BOOLEAN : MigExec(ok) /\ UNCHANGED <<appVars, shimVars, vfsVars, lockVars>>
  \/ MigRecord /\ UNCHANGED <<appVars, shimVars, vfsVars, lockVars>>

\* ------------------------------------------------------------------ VFS file locks
VfsConns == 1..MaxVfsConns

SQLITE_LOCK_NONE == 0
SQLITE_LOCK_SHARED == 1
SQLITE_LOCK_RESERVED == 2
SQLITE_LOCK_PENDING == 3
SQLITE_LOCK_EXCLUSIVE == 4

\* the levels SQLite passes to xLock and to xUnlock
LockLevels == {SQLITE_LOCK_SHARED, SQLITE_LOCK_RESERVED, SQLITE_LOCK_EXCLUSIVE}

UnlockLevels == {SQLITE_LOCK_NONE, SQLITE_LOCK_SHARED}

VfsInit ==
  /\ vfsHolders = [c \in VfsConns |-> SQLITE_LOCK_NONE]
  /\ vfsLog = [op |-> "none", fi |-> 0, level |-> 0, rc |-> "SQLITE_OK",
               before |-> [c \in VfsConns |-> SQLITE_LOCK_NONE]]

NodejsLockUnchecked(holders, fi, level) ==
  [holders |-> [holders EXCEPT ![fi] = level], rc |-> "SQLITE_OK"]

\* nodejsLock(fi, level): the two conflict checks, then holders.set(fi, level)
NodejsLock(holders, fi, level) ==
  LET myLevel == holders[fi] IN
  IF /\ level >= SQLITE_LOCK_RESERVED /\ myLevel < SQLITE_LOCK_RESERVED
     /\ \E other \in VfsConns : other # fi /\ holders[other] >= SQLITE_LOCK_RESERVED
    THEN [holders |-> holders, rc |-> "SQLITE_BUSY"]
  ELSE IF /\ level >= SQLITE_LOCK_EXCLUSIVE /\ myLevel < SQLITE_LOCK_EXCLUSIVE
          /\ \E other \in VfsConns : other # fi /\ holders[other] >= SQLITE_LOCK_SHARED
    THEN [holders |-> holders, rc |-> "SQLITE_BUSY"]
  ELSE [holders |-> [holders EXCEPT ![fi] = level], rc |-> "SQLITE_OK"]

\* nodejsUnlock(fi, level): delete the entry for NONE, else holders.set(fi, level)
NodejsUnlock(holders, fi, level) ==
  [holders |-> [holders EXCEPT ![fi] = level], rc |-> "SQLITE_OK"]

\* a connection asks for a lock
VfsLock(fi, level) ==
  LET out == NodejsLock(vfsHolders, fi, level) IN
    /\ vfsHolders' = out.holders
    /\ vfsLog' = [op |-> "nodejsLock", fi |-> fi, level |-> level, rc |-> out.rc,
                  before |-> vfsHolders]

\* a connection lowers its lock to SHARED or gives it up (also on close)
VfsUnlock(fi, level) ==
  /\ vfsHolders[fi] >= level
  /\ LET out == NodejsUnlock(vfsHolders, fi, level) IN
       /\ vfsHolders' = out.holders
       /\ vfsLog' = [op |-> "nodejsUnlock", fi |-> fi, level |-> level, rc |-> out.rc,
                     before |-> vfsHolders]

VfsNext ==
  \/ \E fi \in VfsConns, level \in LockLevels :
       VfsLock(fi, level) /\ UNCHANGED <<appVars, shimVars, migVars, lockVars>>
  \/ \E fi \in VfsConns, level \in UnlockLevels :
       VfsUnlock(fi, level) /\ UNCHANGED <<appVars, shimVars, migVars, lockVars>>

\* ------------------------------------------------------------------ cleanStaleLocks
\* the process that has the PID recorded in postmaster.pid: "none", or alive and
\* owned by the caller's user ("own") or by another user ("foreign")
ProcStates == {"none", "own", "foreign"}

NoLockFiles == [pid |-> FALSE, sockets |-> 0]

LockInit ==
  /\ lockFiles = NoLockFiles
  /\ lockProc = "none"
  /\ lockLog = [calls |-> 0, op |-> "none", proc |-> "none", before |-> NoLockFiles,
                result |-> FALSE]

\* isProcessRunning(pid): process.kill(pid, 0) returned; it throws when there is no
\* such process (ESRCH) and when the process may not be signalled (EPERM)
IsProcessRunning(proc) == proc = "own"

\* cleanStaleLocks(dataPath): the files it leaves and what it returns
CleanStaleLocks(files, proc) ==
  IF ~files.pid THEN [files |-> files, result |-> FALSE]
  ELSE IF IsProcessRunning(proc) THEN [files |-> files, result |-> FALSE]
  ELSE [files |-> NoLockFiles, result |-> TRUE]

\* a server starts on the data directory: it writes postmaster.pid and its socket
\* lock files
LockServerStarts(n) ==
  /\ lockProc = "none"
  /\ n \in 0..MaxSockets
  /\ lockFiles' = [pid |-> TRUE, sockets |-> n]
  /\ lockProc' = "own"
  /\ lockLog' = [lockLog EXCEPT !.op = "start"]

\* the process with the recorded PID ends: a clean stop removes its files, a crash
\* leaves them
LockProcessEnds(crash) ==
  /\ lockProc # "none"
  /\ lockProc' = "none"
  /\ lockFiles' = IF crash THEN lockFiles ELSE NoLockFiles
  /\ lockLog' = [lockLog EXCEPT !.op = "end"]

\* the PID recorded in a file left behind is given to a new process
LockPidReused(owner) ==
  /\ lockProc = "none"
  /\ lockFiles.pid
  /\ owner \in ProcStates \ {"none"}
  /\ lockProc' = owner
  /\ lockLog' = [lockLog EXCEPT !.op = "reuse"]
  /\ UNCHANGED lockFiles

\* createInstance calls cleanStaleLocks on the data directory
LockClean ==
  /\ lockLog.calls < MaxCleanCalls
  /\ LET out == CleanStaleLocks(lockFiles, lockProc) IN
       /\ lockFiles' = out.files
       /\ lockLog' = [calls |-> lockLog.calls + 1, op |-> "clean", proc |-> lockProc,
                      before |-> lockFiles, result |-> out.result]
  /\ UNCHANGED lockProc

LockNext ==
  \/ \E n \in 0..MaxSockets :
       LockServerStarts(n) /\ UNCHANGED <<appVars, shimVars, migVars, vfsVars>>
  \/ \E crash \in BOOLEAN :
       LockProcessEnds(crash) /\ UNCHANGED <<appVars, shimVars, migVars, vfsVars>>
  \/ \E owner \in ProcStates :
       LockPidReused(owner) /\ UNCHANGED <<appVars, shimVars, migVars, vfsVars>>
  \/ LockClean /\ UNCHANGED <<appVars, shimVars, migVars, vfsVars>>

\* ------------------------------------------------------------------ specifications
Init ==
  /\ MutexStateInit
  /\ ProxyInit
  /\ CdcInit
  /\ RecInit
  /\ TrackInit
  /\ StartInit
  /\ SigInit
  /\ TxInit
  /\ ShimInit
  /\ MigInit
  /\ VfsInit
  /\ LockInit

\* under Node, where the proxy runs, setImmediate exists
InitNode == Init /\ hasSetImmediate

SpecMutex == Init /\ [][MutexNext_]_vars

ReentryNext ==
  \/ MutexNext_
  \/ \E c \in Callers :
        ReAcquire(c) /\ UNCHANGED <<proxyVars, cdcVars, recVars, trackVars, startVars, libVars>>

SpecReentry == Init /\ [][ReentryNext]_vars

\* every holder eventually calls release(): a holder's code is eventually run again
\* and eventually releases; the event loop runs every scheduled callback and every
\* synchronous run returns to it
MutexFairness ==
  /\ \A c \in Callers :
       /\ SF_vars(Release(c) /\ UNCHANGED <<proxyVars, cdcVars, recVars, trackVars, startVars, libVars>>)
       /\ SF_vars(pc[c] = "holding" /\ Enter(c)
                    /\ UNCHANGED <<proxyVars, cdcVars, recVars, trackVars, startVars, libVars>>)
       /\ WF_vars(Yield(c) /\ UNCHANGED <<proxyVars, cdcVars, recVars, trackVars, startVars, libVars>>)
  /\ SF_vars(RunMacrotask /\ UNCHANGED <<proxyVars, cdcVars, recVars, trackVars, startVars, libVars>>)

\* the Mutex alone: orez's other parts in one fixed starting state
InitMutexOnly ==
  /\ Init
  /\ zeroCache = "none"
  /\ replicaFiles = {}
  /\ cdbSchemas = {}
  /\ cfg = [onDbReady |-> FALSE, beforeZero |-> FALSE, skipZeroCache |-> FALSE]

SpecMutexLive == InitMutexOnly /\ [][MutexNext_]_vars /\ MutexFairness

SpecProxy == InitNode /\ [][ProxyNext]_vars

SpecCdc == InitNode /\ [][CdcNext]_vars

SpecRecovery == InitNode /\ [][RecoveryNext]_vars

ShutdownNext ==
  \/ ProxyNext
  \/ StopProxy /\ UNCHANGED <<mutexVars, cdcVars, recVars, trackVars, startVars, libVars>>

SpecShutdown == InitNode /\ [][ShutdownNext]_vars

\* the library functions alone: orez's other parts in one fixed starting state
InitLibrary == InitMutexOnly /\ hasSetImmediate

SpecSignature == InitLibrary /\ [][SigNext]_vars

SpecTransaction == InitLibrary /\ [][TxNext]_vars

SpecTracker == InitNode /\ [][TrackNext]_vars

\* the four sqlite-mode functions called in any order on an installed package
SpecShim == InitLibrary /\ [][ShimNext]_vars

\* the same, with the package manager writing index.js in between
SpecShimInstall == InitLibrary /\ [][ShimInstallNext]_vars

\* runMigrations run again and again on one primary database
SpecMigrations == InitLibrary /\ [][MigNext]_vars

\* connections locking and unlocking one database file through the VFS
SpecVfs == InitLibrary /\ [][VfsNext]_vars

\* servers starting, ending and crashing on a data directory, and cleanStaleLocks
SpecLocks == InitLibrary /\ [][LockNext]_vars

SpecStart == InitNode /\ [][StartNext]_vars

\* orez started with zero-cache and without hooks
SpecLifecycle == InitLibrary /\ [][LifecycleNext]_vars

Holders == {c \in Callers : pc[c] = "holding"}

\* C1: at most one caller holds the mutex at any time, and while a hand-off to a
\* queued waiter is scheduled but not yet run nobody holds it and it stays locked,
\* so no acquire() is granted in that interval.
MutexExclusive ==
  /\ Cardinality(Holders) + Len(macrotasks) <= 1
  /\ (Holders # {} \/ macrotasks # <<>>) => mutex.locked

\* C1 witness: a hand-off is pending and a caller whose acquire() came in that
\* interval is queued behind it.
MutexHandoffContended ==
  /\ macrotasks # <<>>
  /\ \E c \in lateArrival : pc[c] = "waiting"

\* C2: callers are granted the mutex in the order of their acquire() calls: a caller
\* granted in a step is the oldest ungranted caller, and an acquire() that returns at
\* once does so only when no earlier call is still ungranted.
MutexFifo ==
  [][\A c \in Callers :
       (pc[c] # "holding" /\ pc'[c] = "holding") =>
         IF pc[c] = "waiting" THEN Head(pending) = c ELSE pending = <<>>]_vars

\* C2 witness: a caller whose acquire() arrived while a hand-off was pending now
\* holds the mutex, other callers having been served before it.
MutexLateArrivalServed ==
  \E c \in lateArrival : pc[c] = "holding"

\* C3: a queued waiter never starts holding the mutex inside release(): it resumes
\* only in a step of the event loop taken with no code on the stack, from the
\* callback release() scheduled, so release() has returned first.
MutexReleaseYields ==
  [][\A c \in Callers :
       (pc[c] = "waiting" /\ pc'[c] = "holding") =>
         /\ running = None
         /\ macrotasks # <<>>
         /\ Head(macrotasks).fn = c
         /\ Head(macrotasks).kind \in {"immediate", "timeout"}]_vars

\* C3 witness: a waiter resumed from a scheduled hand-off after an I/O callback
\* had run between release() and its resumption.
MutexIoRanBetweenHolders ==
  /\ ioBetween
  /\ macrotasks = <<>>
  /\ \E c \in Callers : pc[c] = "holding" /\ running = c

\* C4: a socket close that happens while another connection to the same database is
\* open issues neither ROLLBACK nor a session reset, and leaves the session's
\* transaction as it was.
CloseWithOthersKeepsTransaction ==
  (lastEvent.kind = "close" /\ lastEvent.others) =>
     /\ lastEvent.issued = "none"
     /\ lastEvent.txAfter = lastEvent.txBefore

\* C4 witness: a connection closed while another was open and a transaction was in
\* progress, and the transaction is still in progress after the close.
ClosedBesideOpenTransaction ==
  /\ lastEvent.kind = "close"
  /\ lastEvent.others
  /\ lastEvent.txBefore
  /\ lastEvent.txAfter

\* C5: when the last open connection to a database closes, ROLLBACK + session reset
\* is issued on that database and no transaction is left open in its session.
LastCloseRollsBack ==
  (lastEvent.kind = "close" /\ ~lastEvent.others) =>
     /\ lastEvent.issued = "rollback_reset"
     /\ ~lastEvent.txAfter

\* C5 witness: the last connection closed while a transaction was open, and the
\* close ended it.
LastCloseEndedTransaction ==
  /\ lastEvent.kind = "close"
  /\ ~lastEvent.others
  /\ lastEvent.txBefore
  /\ ~lastEvent.txAfter

\* C6: an instance's mutex is held only by a connection that is in the middle of
\* processing one message; a connection waiting for its next message holds no mutex,
\* whether or not a transaction is open.
MutexHeldPerMessage ==
  /\ \A d \in Dbs : mutexHolder[d] # None =>
        /\ connPc[mutexHolder[d]] = "processing"
        /\ connMsg[mutexHolder[d]] \in Messages
        /\ dbMutex[d].locked
  /\ \A c \in Conns : connPc[c] = "idle" => \A d \in Dbs : mutexHolder[d] # c

\* C6 witness: a connection sits idle with the transaction it began still open while
\* another connection holds the same database's mutex.
IdleInTransactionOtherHolds ==
  \E c \in Conns, o \in Conns :
    /\ c # o
    /\ connOpen[c] /\ connPc[c] = "idle"
    /\ session[connDb[c]].inTx /\ session[connDb[c]].owner = c
    /\ mutexHolder[connDb[c]] = o

\* C7: no message of one connection executes inside a transaction that a different
\* connection began.
NoForeignStatementInTransaction ==
  lastEvent.kind \in Messages => ~lastEvent.foreign

\* C8: no change record written by a transaction that rolled back is ever delivered
\* to the replication consumer.
NoAbortedChangeDelivered ==
  \A i \in 1..Len(delivered) : delivered[i] \notin aborted

\* C10: the watermarks delivered on a fresh stream started at watermark 0 are
\* strictly increasing, hence without duplicates.
DeliveredStrictlyIncreasing ==
  \A i \in 1..Len(delivered) : \A j \in 1..Len(delivered) :
     i < j => delivered[i] < delivered[j]

\* C10 witness: a fresh stream has delivered, over more than one poll, the records
\* of several committed transactions and nothing else is left to read.
DeliveredSeveralCommitted ==
  /\ Len(delivered) > BatchSize
  /\ ~cdcTx.inTx
  /\ aborted = {}
  /\ Len(delivered) = Len(changeLog)

\* C9: from the start of recoverFromCdcCorruption on, every table the user created in
\* the primary database is still there with the rows it had.
RecoveryKeepsUserTables ==
  recPc # "idle" => UserTables(tables) = userBefore

\* C11: over the life of one data directory the sequence never issues a value it has
\* issued before, also across a run of the recovery path.
NeverIssuedTwice ==
  \A i \in 1..Len(issued) : \A j \in 1..Len(issued) :
     i # j => issued[i] # issued[j]

\* C12: a rollback of a transaction that allocated watermarks takes the allocations
\* back: in the step that rolls back, the sequence returns to the value it had before
\* the transaction's first allocation.
RollbackReturnsAllocation ==
  [][aborted' # aborted =>
       seqLast' = seqLast - Cardinality(OpenWatermarks(changeLog))]_vars

\* C13: for two transactions of different connections on the same database, if the
\* first commits before the second then each of its change records has a smaller
\* watermark than each record of the second.
CommitOrderIsWatermarkOrder ==
  \A i \in 1..Len(commitOrder) : \A j \in 1..Len(commitOrder) :
     (i < j /\ commitOrder[i].conn # commitOrder[j].conn) =>
        \A a \in 1..Len(changeLog) : \A b \in 1..Len(changeLog) :
           (changeLog[a].tx = commitOrder[i] /\ changeLog[b].tx = commitOrder[j]) =>
              changeLog[a].watermark < changeLog[b].watermark

\* C14: a stream delivers records in watermark order, and the records of one
\* transaction are delivered next to each other, no record of another transaction
\* between them.
DeliveredOrderedAndContiguous ==
  /\ \A i \in 1..Len(delivered) : \A j \in 1..Len(delivered) :
        i < j => delivered[i] <= delivered[j]
  /\ \A i \in 1..Len(deliveredTx) : \A j \in 1..Len(deliveredTx) :
        (i < j /\ deliveredTx[i] = deliveredTx[j]) =>
           \A k \in i..j : deliveredTx[k] = deliveredTx[i]

\* C16: once the change-tracker installer has completed, the tables carrying a hook
\* are exactly the tables of the current publication.
HookedIsPublished ==
  (instPc = "idle" /\ runs # "none") => Hooked(hooks) = published

\* C16 witness: an installer run has completed that hooked a newly published table
\* and unhooked a table that had left the publication.
InstallerReconciledBoth ==
  /\ instPc = "idle" /\ runs = "once"
  /\ published # {}
  /\ \A t \in published : hooks[t] = 1
  /\ \E t \in TrackTables \ published :
       /\ lastWrite.table = t /\ lastWrite.records = 1 /\ lastWrite.after = "none"
       /\ hooks[t] = 0

\* C17: after two installer runs in a row on an unchanged publication every published
\* table carries exactly one hook, and a single row mutation that follows writes
\* exactly one change record.
TwiceInstalledOneHook ==
  /\ (instPc = "idle" /\ runs = "twice") => \A t \in published : hooks[t] = 1
  /\ (lastWrite.table # "none" /\ lastWrite.after = "twice" /\ lastWrite.published) =>
        lastWrite.records = 1

\* C17 witness: after the installer ran twice in a row, a row of a published table was
\* mutated and one record was written.
WroteAfterSecondInstall ==
  /\ runs = "twice"
  /\ lastWrite.table \in published
  /\ lastWrite.after = "twice"
  /\ lastWrite.records = 1

\* C18: whenever startZeroLite or a full reset starts zero-cache, every table that the
\* on-db-ready or beforeZero hook created carries its hook: the installer ran after
\* the hook and before the start.
StartedWithHookTablesTracked ==
  (\/ lastStart.by = "startZeroLite"
   \/ lastStart.by = "resetZeroState" /\ lastStart.mode = "full")
    => lastStart.unhooked = {}

\* C18 witness: a full reset re-ran the on-db-ready hook, which created a table, and
\* then started zero-cache with that table hooked.
ResetStartedAfterHookCreatedTable ==
  /\ lastStart.by = "resetZeroState"
  /\ lastStart.mode = "full"
  /\ lastStart.created # {}
  /\ \A t \in lastStart.created : hooks[t] = 1
  /\ zc.state = "alive"

\* resetZeroState has closed or deleted some CDC state and has not yet spawned the new
\* zero-cache
ResetTouched ==
  IF resetMode = "full"
    THEN resetPc \in {"delete", "recreate", "replica", "hook", "install", "start"}
    ELSE resetPc \in {"hook", "install", "start"}

\* C20: from the moment resetZeroState closes or deletes the first piece of CDC state
\* until it spawns the new zero-cache, no zero-cache process is alive.
NoZeroCacheDuringReset == ResetTouched => zc.state # "alive"

\* C19: when recoverFromCdcCorruption has returned and its ALTER SEQUENCE took effect
\* (the sequence will issue 1 next), the change log holds no record with watermark
\* >= 1, whichever of the swallowed statements failed.
RestartedSequenceMeansEmptyLog ==
  (recPc = "done" /\ "restart sequence" \notin swallowed /\ seqLast = 0)
    => \A i \in 1..Len(changeLog) : changeLog[i].watermark < 1

\* C21: a full reset that has restarted zero-cache ran the change-tracker installer
\* before the restart, whether or not an on-db-ready hook is configured.
FullResetReinstalls ==
  (resetLog.mode = "full" /\ resetLog.restarted) => resetLog.installed

\* C22: when the full reset asked for by SIGUSR1 has restarted zero-cache, the change
\* log is empty and the watermark sequence is back at its start.
Sigusr1ResetClearsLog ==
  (resetLog.via = "SIGUSR1" /\ resetLog.restarted /\ resetPc = "finally")
    => (changeLog = <<>> /\ seqLast = 0)

StartedAfterCdcCleanup ==
  lastStart.by = "startZeroLite" => lastStart.staleCdc = {}

\* C25: when stop() closes the instances no message is still queued on a mutex, and
\* no message is forwarded to a closed instance afterwards.
ShutdownDrainsMutexQueues ==
  shutdown.closed => (shutdown.queued = {} /\ ~shutdown.forwarded)

\* C30: for every database, activeConns equals the number of open connections routed
\* to it (so it is never negative, and one database's connects and closes leave the
\* other's count alone); a connect adds exactly one and a close takes exactly one off.
ActiveConnsCountsOpen ==
  /\ [](\A d \in Dbs :
         activeConns[d] = Cardinality({c \in Conns : connOpen[c] /\ connDb[c] = d}))
  /\ [][\A c \in Conns :
         /\ (~connOpen[c] /\ connOpen'[c])
              => activeConns' = [activeConns EXCEPT ![connDb'[c]] = @ + 1]
         /\ (connOpen[c] /\ ~connOpen'[c])
              => activeConns' = [activeConns EXCEPT ![connDb[c]] = @ - 1]]_vars

\* C30 witness: two connections were open on one database, one of them closed, and
\* the count of that database stands at one while the other database's is zero.
ClosedOneOfSeveral ==
  /\ lastEvent.kind = "close"
  /\ lastEvent.others
  /\ \E d \in Dbs :
       /\ activeConns[d] = 1
       /\ \A e \in Dbs \ {d} : activeConns[e] = 0

\* C26: a holder that has called acquire() again is not left queued behind itself:
\* the call fails at once.
ReentryFailsFast ==
  \A c \in Callers :
    pc[c] = "reentered" => ~\E i \in 1..Len(mutex.queue) : mutex.queue[i] = c

\* C29: when every holder eventually releases, every caller waiting in acquire() is
\* eventually granted the mutex.
MutexEveryWaiterGranted ==
  \A c \in Callers : (pc[c] = "waiting") ~> (pc[c] = "holding")

\* C29 witness: every caller but the holder is queued at once.
MutexAllOthersQueued ==
  /\ \E c \in Callers : pc[c] = "holding"
  /\ Len(mutex.queue) = MaxCallers - 1

\* the error text shows a duplicate-key violation on the change log's primary key
ShowsDuplicateOnChangeLogKey(details) ==
  /\ Includes(details, "changeLog_pkey")
  /\ Includes(details, "duplicate key") \/ Includes(details, "23505")

\* C27: hasCdcCorruptionSignature answers true exactly for a text that shows both a
\* duplicate-key violation on the change log's primary key and a watermark message.
SignatureNeedsBothParts ==
  sig.checked =>
    (sig.result <=> (ShowsDuplicateOnChangeLogKey(sig.details)
                       /\ Includes(sig.details, "watermark")))

\* C28: once no wrapped call is in progress db.inTransaction is false, no write of a
\* call that threw is committed, and every write of an outermost call that returned
\* is committed.
TransactionAllOrNothing ==
  txStack = <<>> =>
    /\ ~txDb.inTransaction
    /\ \A r \in txDone :
         /\ r.threw => r.writes \cap txDb.committed = {}
         /\ (r.outer /\ ~r.threw) => r.writes \subseteq txDb.committed


\* C31: when the killZeroCache wait of stop() ends while zeroCacheProcess is still
\* the process it sent SIGTERM to, that process is no longer running: it exited
\* within 3 s or was sent SIGKILL by the timeout.
StopKillEscalates ==
  [][(life.stopWait = "waiting" /\ life'.stopWait = "resolved")
       => zc'.state # "alive"]_vars

\* zero-cache child processes that are running, with or without a handle
ZeroCacheRunning == (IF zc.state = "alive" THEN 1 ELSE 0) + life.orphans

\* the variables a refused resetZeroState call could have touched
AllButLife ==
  <<mutexVars, proxyVars, cdcVars, recVars, trackVars, libVars, cfg, startPc, zc,
    killPc, resetPc, resetMode, resetInProgress, resetFile, createdByHook, lastStart,
    resetLog, cdbSchemas>>

AtMostOneZeroCache == ZeroCacheRunning <= 1

\* C34: once stop() has resolved, no zero-cache child process is running, also when
\* stop() was called during a resetZeroState or a restartZeroCache.
StoppedMeansNoZeroCache == life.stopPc = "stopped" => ZeroCacheRunning = 0

\* C35: when the wasm shim was written over an index.js that was not a shim and the
\* next call restores native mode (restoreNativeMode, applySqliteMode in native
\* mode, or cleanupShim), index.js holds what it held before the shim and the backup
\* file is gone.
ShimRoundTrip ==
  shimLog.seq = "restored" => (pkgIndex = shimLog.prior /\ pkgBackup = "absent")

\* C36: starting from an installed package without a backup, after any calls of the
\* four functions the backup file, when there is one, holds the original index.js
\* and never the shim.
BackupHoldsOriginal ==
  pkgBackup # "absent" => (pkgBackup = "original 1" /\ ~IsOrezShimmed(pkgBackup))

BackedUpAgainAfterRestore ==
  /\ pkgBackup # "absent" /\ IsOrezShimmed(pkgIndex)
  /\ shimLog.seq = "applied" /\ shimLog.calls >= 3

\* C37: over any number of runMigrations runs on one database, also after a run that
\* failed midway, no statement of a migration takes effect twice and no name is
\* recorded twice; names are recorded in journal order; a run that found nothing
\* pending returns 0.
MigrationsAppliedOnce ==
  /\ \A f \in MigFiles, st \in MigStatements : migDb.execs[f][st] <= 1
  /\ \A i, j \in 1..Len(migDb.applied) :
       i < j => migDb.applied[i] < migDb.applied[j]
  /\ (migRun.pc = "idle" /\ migRun.runs > 0 /\ migRun.pendingAtCall = {})
       => migRun.last = 0

ExclusiveExcludesAll ==
  \A c \in VfsConns :
    vfsHolders[c] = SQLITE_LOCK_EXCLUSIVE
      => \A d \in VfsConns : d # c => vfsHolders[d] < SQLITE_LOCK_SHARED

\* C40: cleanStaleLocks removes postmaster.pid and the .s.PGSQL.* files only when
\* the process with the recorded PID is not running; when that process is alive it
\* removes nothing and returns false.
CleansOnlyStaleLocks ==
  lockLog.op = "clean"
    => /\ lockFiles # lockLog.before => lockLog.proc = "none"
       /\ lockLog.proc # "none" => (lockFiles = lockLog.before /\ ~lockLog.result)

====
